---- MODULE Spec2Model ----
(***************************************************************************)
(* Correspondence chess: the rules engine (src/lib/chess.ts) and the link  *)
(* codec (src/lib/encoding.ts).  A square is <<row, col>> with row and col *)
(* in 0..7 (row 0 = rank 8, col 0 = file a); a board is board[row][col].   *)
(* JavaScript's null / undefined are the values NullPiece, NullSquare,     *)
(* NullMove and Undefined.                                                 *)
(***************************************************************************)
EXTENDS Integers, Sequences, FiniteSets, TLC

VARIABLES
    state,  \* the position on the board of the game being played
    moves,  \* the moves played to reach it
    token,  \* the text of the link (the g parameter), a sequence of characters
    cut,    \* 0: the token is the link of moves; k > 0: altered from character k on; -1: neither
    last,   \* the last appendMoveToEncoded call: its token and its move
    book,   \* which set of moves the players of this game choose among
    list,   \* a caller's move list handed to encodeMoves
    heap    \* the objects of the positions a caller holds, and the call made last

vars == <<state, moves, book, token, cut, last, list, heap>>

\* ------------------------------------------------------------------------
\* chess.ts: types
\* ------------------------------------------------------------------------

Rows == 0..7

Cols == 0..7

Squares == Rows \X Cols

NullPiece == [type |-> "null", color |-> "null"]

NullSquare == <<>>

NullMove == [from |-> <<>>, to |-> <<>>]

Undefined == "undefined"

\* No object has been allocated.
NoHeap == [cells |-> <<>>, held |-> <<>>, op |-> "none"]

PromotionPieces == <<"q", "r", "b", "n">>

Piece(t, c) == [type |-> t, color |-> c]

BackRank(c) == [col \in Cols |->
    Piece(<<"r", "n", "b", "q", "k", "b", "n", "r">>[col + 1], c)]

PawnRank(c) == [col \in Cols |-> Piece("p", c)]

EmptyRank == [col \in Cols |-> NullPiece]

\* createInitialState with the colours of the two camps exchanged.
createInitialStateExchanged ==
    [board |-> [row \in Rows |->
                   CASE row = 0 -> BackRank("w")
                     [] row = 1 -> PawnRank("w")
                     [] row = 6 -> PawnRank("b")
                     [] row = 7 -> BackRank("b")
                     [] OTHER -> EmptyRank],
     turn |-> "w",
     castling |-> [whiteKingside |-> TRUE, whiteQueenside |-> TRUE,
                   blackKingside |-> TRUE, blackQueenside |-> TRUE],
     enPassant |-> NullSquare,
     halfmoveClock |-> 0,
     fullmoveNumber |-> 1,
     lastMove |-> NullMove]

createInitialState ==
    [board |-> [row \in Rows |->
                   CASE row = 0 -> BackRank("b")
                     [] row = 1 -> PawnRank("b")
                     [] row = 6 -> PawnRank("w")
                     [] row = 7 -> BackRank("w")
                     [] OTHER -> EmptyRank],
     turn |-> "w",
     castling |-> [whiteKingside |-> TRUE, whiteQueenside |-> TRUE,
                   blackKingside |-> TRUE, blackQueenside |-> TRUE],
     enPassant |-> NullSquare,
     halfmoveClock |-> 0,
     fullmoveNumber |-> 1,
     lastMove |-> NullMove]

\* ------------------------------------------------------------------------
\* chess.ts: board helpers
\* ------------------------------------------------------------------------

isValidSquare(row, col) == row >= 0 /\ row <= 7 /\ col >= 0 /\ col <= 7

getPiece(board, row, col) ==
    IF row < 0 \/ row > 7 \/ col < 0 \/ col > 7 THEN NullPiece
    ELSE board[row][col]

isEmpty(board, row, col) == getPiece(board, row, col) = NullPiece

Enemy(color) == IF color = "w" THEN "b" ELSE "w"

Abs(n) == IF n < 0 THEN -n ELSE n

\* The squares holding a king of the colour.
KingSquares(board, color) ==
    {sq \in Squares : board[sq[1]][sq[2]] = Piece("k", color)}

\* findKing throws when no king of the colour is on the board.
findKingThrows(board, color) == KingSquares(board, color) = {}

\* The first king of the colour in row-major order.
findKing(board, color) ==
    CHOOSE sq \in KingSquares(board, color) :
        \A o \in KingSquares(board, color) :
            sq[1] < o[1] \/ (sq[1] = o[1] /\ sq[2] <= o[2])

knightMoves ==
    {<<-2, -1>>, <<-2, 1>>, <<-1, -2>>, <<-1, 2>>,
     <<1, -2>>, <<1, 2>>, <<2, -1>>, <<2, 1>>}

kingMoves ==
    {<<-1, -1>>, <<-1, 0>>, <<-1, 1>>, <<0, -1>>,
     <<0, 1>>, <<1, -1>>, <<1, 0>>, <<1, 1>>}

rookDirs == {<<-1, 0>>, <<1, 0>>, <<0, -1>>, <<0, 1>>}

bishopDirs == {<<-1, -1>>, <<-1, 1>>, <<1, -1>>, <<1, 1>>}

\* The first occupied square met walking from (row, col) in direction d holds
\* a piece of byColor whose type is in types.
RayHits(board, row, col, d, byColor, types) ==
    \E n \in 1..7 :
        /\ isValidSquare(row + n * d[1], col + n * d[2])
        /\ board[row + n * d[1]][col + n * d[2]].color = byColor
        /\ board[row + n * d[1]][col + n * d[2]].type \in types
        /\ \A k \in 1..(n - 1) : board[row + k * d[1]][col + k * d[2]] = NullPiece

\* isSquareAttacked with the bishop's and queen's diagonals forgotten.
isSquareAttackedNoDiagonals(board, row, col, byColor) ==
    LET pawnDir == IF byColor = "w" THEN 1 ELSE -1
    IN  \/ \E dc \in {-1, 1} :
               /\ isValidSquare(row + pawnDir, col + dc)
               /\ board[row + pawnDir][col + dc] = Piece("p", byColor)
        \/ \E d \in knightMoves :
               /\ isValidSquare(row + d[1], col + d[2])
               /\ board[row + d[1]][col + d[2]] = Piece("n", byColor)
        \/ \E d \in kingMoves :
               /\ isValidSquare(row + d[1], col + d[2])
               /\ board[row + d[1]][col + d[2]] = Piece("k", byColor)
        \/ \E d \in rookDirs : RayHits(board, row, col, d, byColor, {"r", "q"})

\* isSquareAttacked with the pawns looked for on the far side of the square:
\* a pawn is taken to attack backwards.
isSquareAttackedPawnsBackwards(board, row, col, byColor) ==
    LET pawnDir == IF byColor = "w" THEN -1 ELSE 1
    IN  \/ \E dc \in {-1, 1} :
               /\ isValidSquare(row + pawnDir, col + dc)
               /\ board[row + pawnDir][col + dc] = Piece("p", byColor)
        \/ \E d \in knightMoves :
               /\ isValidSquare(row + d[1], col + d[2])
               /\ board[row + d[1]][col + d[2]] = Piece("n", byColor)
        \/ \E d \in kingMoves :
               /\ isValidSquare(row + d[1], col + d[2])
               /\ board[row + d[1]][col + d[2]] = Piece("k", byColor)
        \/ \E d \in rookDirs : RayHits(board, row, col, d, byColor, {"r", "q"})
        \/ \E d \in bishopDirs : RayHits(board, row, col, d, byColor, {"b", "q"})

isSquareAttacked(board, row, col, byColor) ==
    LET pawnDir == IF byColor = "w" THEN 1 ELSE -1
    IN  \/ \E dc \in {-1, 1} :
               /\ isValidSquare(row + pawnDir, col + dc)
               /\ board[row + pawnDir][col + dc] = Piece("p", byColor)
        \/ \E d \in knightMoves :
               /\ isValidSquare(row + d[1], col + d[2])
               /\ board[row + d[1]][col + d[2]] = Piece("n", byColor)
        \/ \E d \in kingMoves :
               /\ isValidSquare(row + d[1], col + d[2])
               /\ board[row + d[1]][col + d[2]] = Piece("k", byColor)
        \/ \E d \in rookDirs : RayHits(board, row, col, d, byColor, {"r", "q"})
        \/ \E d \in bishopDirs : RayHits(board, row, col, d, byColor, {"b", "q"})

\* isInCheck throws when findKing does.
isInCheckThrows(board, color) == findKingThrows(board, color)

isInCheck(board, color) ==
    LET king == findKing(board, color)
    IN  isSquareAttacked(board, king[1], king[2], Enemy(color))

\* ------------------------------------------------------------------------
\* chess.ts: move generation
\* ------------------------------------------------------------------------

Mv(from, to, promotion) == [from |-> from, to |-> to, promotion |-> promotion]

\* addMove(toRow, toCol, promo) for each promotion piece when the pawn lands
\* on its promotion row, addMove(toRow, toCol) otherwise.
\* A pawn arriving on any rank listed once, without promotion: the farthest
\* rank is not told apart.
PawnArrivalsPlain(row, col, toRow, toCol, promoRow) ==
    {Mv(<<row, col>>, <<toRow, toCol>>, Undefined)}

PawnArrivals(row, col, toRow, toCol, promoRow) ==
    IF toRow = promoRow
    THEN {Mv(<<row, col>>, <<toRow, toCol>>, PromotionPieces[i]) : i \in 1..4}
    ELSE {Mv(<<row, col>>, <<toRow, toCol>>, Undefined)}

\* addMovesInDirection(dr, dc) with its default maxDist of 7.
addMovesInDirection(board, row, col, d, color) ==
    {Mv(<<row, col>>, <<row + n * d[1], col + n * d[2]>>, Undefined) :
        n \in {n \in 1..7 :
                 /\ isValidSquare(row + n * d[1], col + n * d[2])
                 /\ board[row + n * d[1]][col + n * d[2]].color # color
                 /\ \A k \in 1..(n - 1) :
                        board[row + k * d[1]][col + k * d[2]] = NullPiece}}

\* The knight's and the king's one-step moves.
StepMoves(board, row, col, steps, color) ==
    {Mv(<<row, col>>, <<row + d[1], col + d[2]>>, Undefined) :
        d \in {d \in steps :
                 /\ isValidSquare(row + d[1], col + d[2])
                 /\ board[row + d[1]][col + d[2]].color # color}}

PawnMoves(st, row, col, color) ==
    LET board == st.board
        dir == IF color = "w" THEN -1 ELSE 1
        startRow == IF color = "w" THEN 6 ELSE 1
        promoRow == IF color = "w" THEN 0 ELSE 7
        oneAhead == row + dir
        twoAhead == row + 2 * dir
        forward ==
            IF isValidSquare(oneAhead, col) /\ isEmpty(board, oneAhead, col)
            THEN PawnArrivals(row, col, oneAhead, col, promoRow)
                 \cup (IF row = startRow /\ isEmpty(board, twoAhead, col)
                       THEN {Mv(<<row, col>>, <<twoAhead, col>>, Undefined)}
                       ELSE {})
            ELSE {}
        capture(dc) ==
            LET captureCol == col + dc
            IN  IF /\ isValidSquare(oneAhead, captureCol)
                   /\ \/ /\ board[oneAhead][captureCol] # NullPiece
                         /\ board[oneAhead][captureCol].color # color
                      \/ st.enPassant = <<oneAhead, captureCol>>
                THEN PawnArrivals(row, col, oneAhead, captureCol, promoRow)
                ELSE {}
    IN  forward \cup capture(-1) \cup capture(1)

\* Castling generated without the test of the square the king crosses: only
\* the king's own square and its destination are looked at.
CastlingMovesThroughCheck(st, row, col, color) ==
    LET board == st.board
        enemyColor == Enemy(color)
        kingRow == IF color = "w" THEN 7 ELSE 0
        canKingside == IF color = "w" THEN st.castling.whiteKingside
                       ELSE st.castling.blackKingside
        canQueenside == IF color = "w" THEN st.castling.whiteQueenside
                        ELSE st.castling.blackQueenside
    IN  IF row = kingRow /\ col = 4 /\ ~isSquareAttacked(board, row, col, enemyColor)
        THEN (IF /\ canKingside
                 /\ isEmpty(board, row, 5) /\ isEmpty(board, row, 6)
                 /\ board[row][7] = Piece("r", color)
                 /\ ~isSquareAttacked(board, row, 6, enemyColor)
              THEN {Mv(<<row, col>>, <<row, 6>>, Undefined)} ELSE {})
             \cup
             (IF /\ canQueenside
                 /\ isEmpty(board, row, 3) /\ isEmpty(board, row, 2)
                 /\ isEmpty(board, row, 1)
                 /\ board[row][0] = Piece("r", color)
                 /\ ~isSquareAttacked(board, row, 2, enemyColor)
              THEN {Mv(<<row, col>>, <<row, 2>>, Undefined)} ELSE {})
        ELSE {}

CastlingMoves(st, row, col, color) ==
    LET board == st.board
        enemyColor == Enemy(color)
        kingRow == IF color = "w" THEN 7 ELSE 0
        canKingside == IF color = "w" THEN st.castling.whiteKingside
                       ELSE st.castling.blackKingside
        canQueenside == IF color = "w" THEN st.castling.whiteQueenside
                        ELSE st.castling.blackQueenside
    IN  IF row = kingRow /\ col = 4 /\ ~isSquareAttacked(board, row, col, enemyColor)
        THEN (IF /\ canKingside
                 /\ isEmpty(board, row, 5) /\ isEmpty(board, row, 6)
                 /\ board[row][7] = Piece("r", color)
                 /\ ~isSquareAttacked(board, row, 5, enemyColor)
                 /\ ~isSquareAttacked(board, row, 6, enemyColor)
              THEN {Mv(<<row, col>>, <<row, 6>>, Undefined)} ELSE {})
             \cup
             (IF /\ canQueenside
                 /\ isEmpty(board, row, 3) /\ isEmpty(board, row, 2)
                 /\ isEmpty(board, row, 1)
                 /\ board[row][0] = Piece("r", color)
                 /\ ~isSquareAttacked(board, row, 3, enemyColor)
                 /\ ~isSquareAttacked(board, row, 2, enemyColor)
              THEN {Mv(<<row, col>>, <<row, 2>>, Undefined)} ELSE {})
        ELSE {}

\* The moves of the list generatePseudoLegalMoves returns, as a set.
generatePseudoLegalMoves(st, row, col) ==
    LET board == st.board
        piece == board[row][col]
        color == piece.color
    IN  IF piece = NullPiece \/ piece.color # st.turn THEN {}
        ELSE CASE piece.type = "p" -> PawnMoves(st, row, col, color)
               [] piece.type = "n" -> StepMoves(board, row, col, knightMoves, color)
               [] piece.type = "b" ->
                    UNION {addMovesInDirection(board, row, col, d, color) :
                               d \in bishopDirs}
               [] piece.type = "r" ->
                    UNION {addMovesInDirection(board, row, col, d, color) :
                               d \in rookDirs}
               [] piece.type = "q" ->
                    UNION {addMovesInDirection(board, row, col, d, color) :
                               d \in kingMoves}
               [] piece.type = "k" ->
                    StepMoves(board, row, col, kingMoves, color)
                    \cup CastlingMoves(st, row, col, color)

\* ------------------------------------------------------------------------
\* chess.ts: applyMove
\* ------------------------------------------------------------------------

Put(board, row, col, piece) == [board EXCEPT ![row][col] = piece]

\* applyMove throws when the from square is empty.
applyMoveThrows(st, move) == st.board[move.from[1]][move.from[2]] = NullPiece

\* The board after the move with the captured piece looked for on the
\* destination square only: no removal behind the en-passant target.
MovedBoardNoEnPassant(st, move) ==
    LET fromRow == move.from[1]
        fromCol == move.from[2]
        toRow == move.to[1]
        toCol == move.to[2]
        piece == st.board[fromRow][fromCol]
        b1 == Put(st.board, toRow, toCol,
                  IF move.promotion # Undefined
                  THEN Piece(move.promotion, piece.color) ELSE piece)
        b2 == Put(b1, fromRow, fromCol, NullPiece)
    IN  IF piece.type = "k" /\ Abs(toCol - fromCol) = 2
        THEN IF toCol = 6
             THEN Put(Put(b2, fromRow, 5, b2[fromRow][7]), fromRow, 7, NullPiece)
             ELSE Put(Put(b2, fromRow, 3, b2[fromRow][0]), fromRow, 0, NullPiece)
        ELSE b2

\* The board after the move with the king relocated like any other piece:
\* the castling rook is left on its corner.
MovedBoardRookStays(st, move) ==
    LET fromRow == move.from[1]
        fromCol == move.from[2]
        toRow == move.to[1]
        toCol == move.to[2]
        piece == st.board[fromRow][fromCol]
        b0 == IF piece.type = "p" /\ st.enPassant = <<toRow, toCol>>
              THEN Put(st.board, IF piece.color = "w" THEN toRow + 1 ELSE toRow - 1,
                       toCol, NullPiece)
              ELSE st.board
        b1 == Put(b0, toRow, toCol,
                  IF move.promotion # Undefined
                  THEN Piece(move.promotion, piece.color) ELSE piece)
    IN  Put(b1, fromRow, fromCol, NullPiece)

\* The board after the en-passant removal, the relocation (with promotion)
\* and the castling rook's relocation.
MovedBoard(st, move) ==
    LET fromRow == move.from[1]
        fromCol == move.from[2]
        toRow == move.to[1]
        toCol == move.to[2]
        piece == st.board[fromRow][fromCol]
        b0 == IF piece.type = "p" /\ st.enPassant = <<toRow, toCol>>
              THEN Put(st.board, IF piece.color = "w" THEN toRow + 1 ELSE toRow - 1,
                       toCol, NullPiece)
              ELSE st.board
        b1 == Put(b0, toRow, toCol,
                  IF move.promotion # Undefined
                  THEN Piece(move.promotion, piece.color) ELSE piece)
        b2 == Put(b1, fromRow, fromCol, NullPiece)
    IN  IF piece.type = "k" /\ Abs(toCol - fromCol) = 2
        THEN IF toCol = 6
             THEN Put(Put(b2, fromRow, 5, b2[fromRow][7]), fromRow, 7, NullPiece)
             ELSE Put(Put(b2, fromRow, 3, b2[fromRow][0]), fromRow, 0, NullPiece)
        ELSE b2

\* The castling rights read off the board after the move (king and rook on
\* their home squares) instead of carried along.
MovedCastlingFromBoard(st, move) ==
    LET piece == st.board[move.from[1]][move.from[2]]
        b == [[st.board EXCEPT ![move.to[1]][move.to[2]] = piece]
                 EXCEPT ![move.from[1]][move.from[2]] = NullPiece]
        home(c, row, col) ==
            b[row][4] = Piece("k", c) /\ b[row][col] = Piece("r", c)
    IN  [whiteKingside |-> home("w", 7, 7), whiteQueenside |-> home("w", 7, 0),
         blackKingside |-> home("b", 0, 7), blackQueenside |-> home("b", 0, 0)]

\* The castling rights after the move with only the mover's own king and
\* rook looked at: a capture on a corner leaves the right of that corner.
MovedCastlingOwnPiecesOnly(st, move) ==
    LET piece == st.board[move.from[1]][move.from[2]]
        kingOf(c) == piece.type = "k" /\ piece.color = c
        rookFrom(sq) == piece.type = "r" /\ move.from = sq
    IN  [whiteKingside |->
             st.castling.whiteKingside /\ ~kingOf("w") /\ ~rookFrom(<<7, 7>>),
         whiteQueenside |->
             st.castling.whiteQueenside /\ ~kingOf("w") /\ ~rookFrom(<<7, 0>>),
         blackKingside |->
             st.castling.blackKingside /\ ~kingOf("b") /\ ~rookFrom(<<0, 7>>),
         blackQueenside |->
             st.castling.blackQueenside /\ ~kingOf("b") /\ ~rookFrom(<<0, 0>>)]

\* The castling rights after the move: the mover's king or rook leaving its
\* home square, and any arrival on a corner.
MovedCastling(st, move) ==
    LET piece == st.board[move.from[1]][move.from[2]]
        kingOf(c) == piece.type = "k" /\ piece.color = c
        rookFrom(sq) == piece.type = "r" /\ move.from = sq
    IN  [whiteKingside |->
             /\ st.castling.whiteKingside
             /\ ~kingOf("w") /\ ~rookFrom(<<7, 7>>) /\ move.to # <<7, 7>>,
         whiteQueenside |->
             /\ st.castling.whiteQueenside
             /\ ~kingOf("w") /\ ~rookFrom(<<7, 0>>) /\ move.to # <<7, 0>>,
         blackKingside |->
             /\ st.castling.blackKingside
             /\ ~kingOf("b") /\ ~rookFrom(<<0, 7>>) /\ move.to # <<0, 7>>,
         blackQueenside |->
             /\ st.castling.blackQueenside
             /\ ~kingOf("b") /\ ~rookFrom(<<0, 0>>) /\ move.to # <<0, 0>>]

\* applyMove with the en-passant target written only by a double step and
\* otherwise left as it was.
applyMoveKeepsTarget(st, move) ==
    LET fromRow == move.from[1]
        fromCol == move.from[2]
        toRow == move.to[1]
        piece == st.board[fromRow][fromCol]
        captured == st.board[toRow][move.to[2]]
    IN  [board |-> MovedBoard(st, move),
         turn |-> IF st.turn = "w" THEN "b" ELSE "w",
         castling |-> MovedCastling(st, move),
         enPassant |->
             IF piece.type = "p" /\ Abs(toRow - fromRow) = 2
             THEN <<IF piece.color = "w" THEN fromRow - 1 ELSE fromRow + 1, fromCol>>
             ELSE st.enPassant,
         halfmoveClock |->
             IF piece.type = "p" \/ captured # NullPiece THEN 0
             ELSE st.halfmoveClock + 1,
         fullmoveNumber |->
             IF st.turn = "b" THEN st.fullmoveNumber + 1 ELSE st.fullmoveNumber,
         lastMove |-> [from |-> move.from, to |-> move.to]]

\* applyMove with the half-move clock reset by pawn moves only: a capture by
\* another piece lets it run on.
applyMoveClockIgnoresCapture(st, move) ==
    LET fromRow == move.from[1]
        fromCol == move.from[2]
        toRow == move.to[1]
        piece == st.board[fromRow][fromCol]
    IN  [board |-> MovedBoard(st, move),
         turn |-> IF st.turn = "w" THEN "b" ELSE "w",
         castling |-> MovedCastling(st, move),
         enPassant |->
             IF piece.type = "p" /\ Abs(toRow - fromRow) = 2
             THEN <<IF piece.color = "w" THEN fromRow - 1 ELSE fromRow + 1, fromCol>>
             ELSE NullSquare,
         halfmoveClock |->
             IF piece.type = "p" THEN 0 ELSE st.halfmoveClock + 1,
         fullmoveNumber |->
             IF st.turn = "b" THEN st.fullmoveNumber + 1 ELSE st.fullmoveNumber,
         lastMove |-> [from |-> move.from, to |-> move.to]]

applyMove(st, move) ==
    LET fromRow == move.from[1]
        fromCol == move.from[2]
        toRow == move.to[1]
        piece == st.board[fromRow][fromCol]
        captured == st.board[toRow][move.to[2]]
    IN  [board |-> MovedBoard(st, move),
         turn |-> IF st.turn = "w" THEN "b" ELSE "w",
         castling |-> MovedCastling(st, move),
         enPassant |->
             IF piece.type = "p" /\ Abs(toRow - fromRow) = 2
             THEN <<IF piece.color = "w" THEN fromRow - 1 ELSE fromRow + 1, fromCol>>
             ELSE NullSquare,
         halfmoveClock |->
             IF piece.type = "p" \/ captured # NullPiece THEN 0
             ELSE st.halfmoveClock + 1,
         fullmoveNumber |->
             IF st.turn = "b" THEN st.fullmoveNumber + 1 ELSE st.fullmoveNumber,
         lastMove |-> [from |-> move.from, to |-> move.to]]

\* ------------------------------------------------------------------------
\* chess.ts: legality
\* ------------------------------------------------------------------------

\* isLegalMove without the look at the mover's king after the move.
isLegalMovePseudo(st, move) ==
    LET piece == st.board[move.from[1]][move.from[2]]
    IN  /\ piece # NullPiece
        /\ piece.color = st.turn
        /\ move \in generatePseudoLegalMoves(st, move.from[1], move.from[2])

\* isLegalMove throws when the mover's king is missing after the move.
isLegalMoveThrows(st, move) ==
    LET piece == st.board[move.from[1]][move.from[2]]
    IN  /\ piece # NullPiece
        /\ piece.color = st.turn
        /\ move \in generatePseudoLegalMoves(st, move.from[1], move.from[2])
        /\ isInCheckThrows(applyMove(st, move).board, st.turn)

isLegalMove(st, move) ==
    LET piece == st.board[move.from[1]][move.from[2]]
    IN  IF piece = NullPiece \/ piece.color # st.turn THEN FALSE
        ELSE IF move \notin generatePseudoLegalMoves(st, move.from[1], move.from[2])
        THEN FALSE
        ELSE ~isInCheck(applyMove(st, move).board, st.turn)

getLegalMoves(st, row, col) ==
    {move \in generatePseudoLegalMoves(st, row, col) :
        ~isInCheck(applyMove(st, move).board, st.turn)}

getAllLegalMoves(st) ==
    UNION {getLegalMoves(st, sq[1], sq[2]) :
               sq \in {s \in Squares : /\ st.board[s[1]][s[2]] # NullPiece
                                       /\ st.board[s[1]][s[2]].color = st.turn}}

\* getLegalMoves calls isInCheck on the position after every pseudo-legal move;
\* getAllLegalMoves throws when one of these calls does.
getAllLegalMovesThrows(st) ==
    \E sq \in Squares :
        \E move \in generatePseudoLegalMoves(st, sq[1], sq[2]) :
            isInCheckThrows(applyMove(st, move).board, st.turn)

\* getGameStatus throws when getAllLegalMoves does, or when its own isInCheck
\* call (made when there is no legal move) does.
getGameStatusThrows(st) ==
    \/ getAllLegalMovesThrows(st)
    \/ isInCheckThrows(st.board, st.turn) /\ getAllLegalMoves(st) = {}

\* The squares of the board that hold a piece, and the first of a set of
\* squares in the order of the row and column loops.
Occupied(board) == {sq \in Squares : board[sq[1]][sq[2]] # NullPiece}

FirstSquare(S) ==
    CHOOSE sq \in S : \A other \in S : sq[1] * 8 + sq[2] <= other[1] * 8 + other[2]

\* The insufficient-material test without the knight among the minor pieces.
InsufficientMaterialNoKnight(st) ==
    LET pieces == Occupied(st.board)
        nonKings == {sq \in pieces : st.board[sq[1]][sq[2]].type # "k"}
    IN  \/ Cardinality(pieces) = 2
        \/ /\ Cardinality(pieces) = 3
           /\ nonKings # {}
           /\ st.board[FirstSquare(nonKings)[1]][FirstSquare(nonKings)[2]].type = "b"

\* The insufficient-material tests with the squares of the two bishops not
\* compared.
InsufficientMaterialAnyBishops(st) ==
    LET pieces == Occupied(st.board)
        nonKings == {sq \in pieces : st.board[sq[1]][sq[2]].type # "k"}
        bishops == {sq \in pieces : st.board[sq[1]][sq[2]].type = "b"}
    IN  \/ Cardinality(pieces) = 2
        \/ /\ Cardinality(pieces) = 3
           /\ nonKings # {}
           /\ st.board[FirstSquare(nonKings)[1]][FirstSquare(nonKings)[2]].type
                  \in {"b", "n"}
        \/ /\ Cardinality(pieces) = 4
           /\ Cardinality(bishops) = 2
           /\ \E b1 \in bishops : \E b2 \in bishops :
                  /\ b1 # b2
                  /\ st.board[b1[1]][b1[2]].color # st.board[b2[1]][b2[2]].color

\* The insufficient-material tests of getGameStatus: two pieces; three
\* pieces, the first that is no king a bishop or knight; four pieces, two
\* of them bishops of different colours on squares of equal parity.
InsufficientMaterial(st) ==
    LET pieces == Occupied(st.board)
        nonKings == {sq \in pieces : st.board[sq[1]][sq[2]].type # "k"}
        bishops == {sq \in pieces : st.board[sq[1]][sq[2]].type = "b"}
    IN  \/ Cardinality(pieces) = 2
        \/ /\ Cardinality(pieces) = 3
           /\ nonKings # {}
           /\ st.board[FirstSquare(nonKings)[1]][FirstSquare(nonKings)[2]].type
                  \in {"b", "n"}
        \/ /\ Cardinality(pieces) = 4
           /\ Cardinality(bishops) = 2
           /\ \E b1 \in bishops : \E b2 \in bishops :
                  /\ b1 # b2
                  /\ st.board[b1[1]][b1[2]].color # st.board[b2[1]][b2[2]].color
                  /\ (b1[1] + b1[2]) % 2 = (b2[1] + b2[2]) % 2

\* getGameStatus with the clock looked at before the legal moves.
getGameStatusClockFirst(st) ==
    IF st.halfmoveClock >= 100 THEN "draw_50_move"
    ELSE IF getAllLegalMoves(st) = {}
    THEN IF isInCheck(st.board, st.turn) THEN "checkmate" ELSE "stalemate"
    ELSE IF InsufficientMaterial(st) THEN "draw_insufficient"
    ELSE "ongoing"

\* getGameStatus with the draw one ply late.
getGameStatusLateDraw(st) ==
    IF getAllLegalMoves(st) = {}
    THEN IF isInCheck(st.board, st.turn) THEN "checkmate" ELSE "stalemate"
    ELSE IF st.halfmoveClock > 100 THEN "draw_50_move"
    ELSE IF InsufficientMaterial(st) THEN "draw_insufficient"
    ELSE "ongoing"

getGameStatus(st) ==
    IF getAllLegalMoves(st) = {}
    THEN IF isInCheck(st.board, st.turn) THEN "checkmate" ELSE "stalemate"
    ELSE IF st.halfmoveClock >= 100 THEN "draw_50_move"
    ELSE IF InsufficientMaterial(st) THEN "draw_insufficient"
    ELSE "ongoing"

\* ------------------------------------------------------------------------
\* encoding.ts: 32-bit integer operators of JavaScript on the values used
\* ------------------------------------------------------------------------

RECURSIVE BitOr(_, _)
\* x | y for non-negative x, y.
BitOr(x, y) ==
    IF x = 0 THEN y
    ELSE IF y = 0 THEN x
    ELSE (IF x % 2 = 1 \/ y % 2 = 1 THEN 1 ELSE 0) + 2 * BitOr(x \div 2, y \div 2)

RECURSIVE BitAnd(_, _)
\* x & y for non-negative x, y.
BitAnd(x, y) ==
    IF x = 0 \/ y = 0 THEN 0
    ELSE (IF x % 2 = 1 /\ y % 2 = 1 THEN 1 ELSE 0) + 2 * BitAnd(x \div 2, y \div 2)

\* x << n for 0 <= x < 2^(31 - n), where no bit leaves the 32-bit word.
Shl(x, n) == x * (2 ^ n)

\* x >> n for non-negative x.
Shr(x, n) == x \div (2 ^ n)

\* ------------------------------------------------------------------------
\* encoding.ts: one move in 16 bits
\* ------------------------------------------------------------------------

\* promoMap of encodeMove; an absent promotion leaves promo at 0.
encodePromo(promotion) ==
    CASE promotion = "q" -> 1
      [] promotion = "r" -> 2
      [] promotion = "b" -> 3
      [] promotion = "n" -> 4
      [] OTHER -> 0

\* encodeMove with the origin shifted by 8, overlapping the destination.
encodeMoveNarrow(move) ==
    LET from == move.from[1] * 8 + move.from[2]
        to == move.to[1] * 8 + move.to[2]
        promo == encodePromo(move.promotion)
    IN  BitOr(BitOr(Shl(from, 8), Shl(to, 4)), promo)

encodeMove(move) ==
    LET from == move.from[1] * 8 + move.from[2]
        to == move.to[1] * 8 + move.to[2]
        promo == encodePromo(move.promotion)
    IN  BitOr(BitOr(Shl(from, 10), Shl(to, 4)), promo)

\* decodeMove's promoMap read one entry too low.
decodePromoShifted(promo) ==
    IF promo > 0 /\ promo <= 4 THEN <<"q", "q", "r", "b">>[promo] ELSE Undefined

\* promoMap of decodeMove: ['q', 'q', 'r', 'b', 'n'], undefined past its end.
decodePromo(promo) ==
    IF promo > 0 /\ promo <= 4 THEN <<"q", "r", "b", "n">>[promo] ELSE Undefined

decodeMove(encoded) ==
    LET from == BitAnd(Shr(encoded, 10), 63)
        to == BitAnd(Shr(encoded, 4), 63)
        promo == BitAnd(encoded, 15)
    IN  Mv(<<from \div 8, from % 8>>, <<to \div 8, to % 8>>, decodePromo(promo))

\* The bytes of a move list, two per move, the high byte first.
encodeMoves(ms) ==
    [i \in 1..(2 * Len(ms)) |->
        LET encoded == encodeMove(ms[(i + 1) \div 2])
        IN  IF i % 2 = 1 THEN BitAnd(Shr(encoded, 8), 255)
            ELSE BitAnd(encoded, 255)]

\* bytes[i] of a Uint8Array (0-based); undefined past the end, which | reads as 0.
ByteAt(bytes, i) == IF i < Len(bytes) THEN bytes[i + 1] ELSE 0

\* One move per pair of bytes; a last odd byte is paired with undefined.
decodeMoves(bytes) ==
    [k \in 1..((Len(bytes) + 1) \div 2) |->
        decodeMove(BitOr(Shl(ByteAt(bytes, 2 * (k - 1)), 8),
                         ByteAt(bytes, 2 * (k - 1) + 1)))]

\* ------------------------------------------------------------------------
\* encoding.ts: base64url text (btoa / atob of the platform)
\* ------------------------------------------------------------------------

Base64Alphabet ==
    <<"A", "B", "C", "D", "E", "F", "G", "H", "I", "J", "K", "L", "M",
      "N", "O", "P", "Q", "R", "S", "T", "U", "V", "W", "X", "Y", "Z",
      "a", "b", "c", "d", "e", "f", "g", "h", "i", "j", "k", "l", "m",
      "n", "o", "p", "q", "r", "s", "t", "u", "v", "w", "x", "y", "z",
      "0", "1", "2", "3", "4", "5", "6", "7", "8", "9", "+", "/">>

Base64Chars == {Base64Alphabet[i] : i \in 1..64}

Base64Value == [c \in Base64Chars |-> (CHOOSE i \in 1..64 : Base64Alphabet[i] = c) - 1]

AsciiWhitespace == {" ", "\t", "\n", "\f", "\r"}

Digit(v) == Base64Alphabet[v + 1]

\* btoa of the binary string whose code units are the bytes: four characters
\* for every three bytes, "=" where the last group has no second or third
\* byte.
btoa(bytes) ==
    [j \in 1..(4 * ((Len(bytes) + 2) \div 3)) |->
        LET g == (j - 1) \div 4
            b1 == bytes[3 * g + 1]
            b2 == ByteAt(bytes, 3 * g + 1)
            b3 == ByteAt(bytes, 3 * g + 2)
        IN  CASE (j - 1) % 4 = 0 -> Digit(b1 \div 4)
              [] (j - 1) % 4 = 1 -> Digit(((b1 % 4) * 16) + (b2 \div 16))
              [] (j - 1) % 4 = 2 ->
                    IF 3 * g + 2 > Len(bytes) THEN "="
                    ELSE Digit(((b2 % 16) * 4) + (b3 \div 64))
              [] OTHER ->
                    IF 3 * g + 3 > Len(bytes) THEN "=" ELSE Digit(b3 % 64)]

\* str.replace(/x/g, y) for single characters; y = "" removes.
Replace(str, x, y) ==
    IF y = "" THEN SelectSeq(str, LAMBDA c : c # x)
    ELSE [i \in 1..Len(str) |-> IF str[i] = x THEN y ELSE str[i]]

toBase64Url(bytes) == Replace(Replace(Replace(btoa(bytes), "+", "-"), "/", "_"), "=", "")

\* The while loop of fromBase64Url: "=" appended up to a multiple of 4.
Pad(str) ==
    str \o [i \in 1..((4 - (Len(str) % 4)) % 4) |-> "="]

\* atob, step 1 and 2: whitespace removed, then one or two closing "="
\* removed when the length is a multiple of 4.
Stripped(data) ==
    LET d == SelectSeq(data, LAMBDA c : c \notin AsciiWhitespace)
        n == Len(d)
    IN  IF n % 4 = 0 /\ n > 0 /\ d[n] = "="
        THEN IF d[n - 1] = "=" THEN SubSeq(d, 1, n - 2) ELSE SubSeq(d, 1, n - 1)
        ELSE d

\* atob throws InvalidCharacterError.
atobThrows(data) ==
    LET d == Stripped(data)
    IN  (Len(d) % 4) = 1 \/ \E i \in 1..Len(d) : d[i] \notin Base64Chars

\* The bytes of a sequence of 6-bit values, three for every four values;
\* leftover bits are dropped.
Unpack(v) ==
    [i \in 1..((Len(v) * 6) \div 8) |->
        LET g == (i - 1) \div 3
            v1 == v[4 * g + 1]
            v2 == v[4 * g + 2]
        IN  CASE (i - 1) % 3 = 0 -> (v1 * 4) + (v2 \div 16)
              [] (i - 1) % 3 = 1 -> ((v2 % 16) * 16) + (v[4 * g + 3] \div 4)
              [] OTHER -> ((v[4 * g + 3] % 4) * 64) + v[4 * g + 4]]

atob(data) ==
    LET d == Stripped(data)
    IN  Unpack([i \in 1..Len(d) |-> Base64Value[d[i]]])

fromBase64UrlThrows(str) == atobThrows(Pad(Replace(Replace(str, "-", "+"), "_", "/")))

fromBase64Url(str) == atob(Pad(Replace(Replace(str, "-", "+"), "_", "/")))

\* ------------------------------------------------------------------------
\* encoding.ts: links
\* ------------------------------------------------------------------------

encodeGameFromMoves(ms) ==
    IF Len(ms) = 0 THEN <<>> ELSE toBase64Url(encodeMoves(ms))

Result(st, ms) == [state |-> st, moves |-> ms]

RECURSIVE ReplaySkipping(_, _, _)
\* The replay loop with continue where decodeGameState has break.
ReplaySkipping(cands, i, acc) ==
    IF i > Len(cands) THEN [threw |-> FALSE, result |-> acc]
    ELSE IF isLegalMoveThrows(acc.state, cands[i]) THEN [threw |-> TRUE, result |-> acc]
    ELSE IF isLegalMove(acc.state, cands[i])
    THEN ReplaySkipping(cands, i + 1,
                Result(applyMove(acc.state, cands[i]), Append(acc.moves, cands[i])))
    ELSE ReplaySkipping(cands, i + 1, acc)

RECURSIVE ReplayAllOrNothing(_, _, _)
\* The replay loop giving up the whole list at the first rejected candidate.
ReplayAllOrNothing(cands, i, acc) ==
    IF i > Len(cands) THEN [threw |-> FALSE, result |-> acc]
    ELSE IF isLegalMoveThrows(acc.state, cands[i]) THEN [threw |-> TRUE, result |-> acc]
    ELSE IF isLegalMove(acc.state, cands[i])
    THEN ReplayAllOrNothing(cands, i + 1,
                Result(applyMove(acc.state, cands[i]), Append(acc.moves, cands[i])))
    ELSE [threw |-> FALSE, result |-> Result(createInitialState, <<>>)]

RECURSIVE ReplayStopsAtFiftyMoves(_, _, _)
\* The replay loop breaking off as well when the position it has reached is a
\* draw by the fifty-move rule.
ReplayStopsAtFiftyMoves(cands, i, acc) ==
    IF i > Len(cands) THEN [threw |-> FALSE, result |-> acc]
    ELSE IF isLegalMoveThrows(acc.state, cands[i]) THEN [threw |-> TRUE, result |-> acc]
    ELSE IF acc.state.halfmoveClock < 100 /\ isLegalMove(acc.state, cands[i])
    THEN ReplayStopsAtFiftyMoves(cands, i + 1,
                Result(applyMove(acc.state, cands[i]), Append(acc.moves, cands[i])))
    ELSE [threw |-> FALSE, result |-> acc]

RECURSIVE Replay(_, _, _)
\* The for loop of decodeGameState from candidate i on: the position and the
\* accepted moves at the break or at the end, and whether isLegalMove threw.
Replay(cands, i, acc) ==
    IF i > Len(cands) THEN [threw |-> FALSE, result |-> acc]
    ELSE IF isLegalMoveThrows(acc.state, cands[i]) THEN [threw |-> TRUE, result |-> acc]
    ELSE IF isLegalMove(acc.state, cands[i])
    THEN Replay(cands, i + 1,
                Result(applyMove(acc.state, cands[i]), Append(acc.moves, cands[i])))
    ELSE [threw |-> FALSE, result |-> acc]

\* The try block of decodeGameState ends in its catch.
decodeGameStateCatches(encoded) ==
    /\ encoded # <<>>
    /\ \/ fromBase64UrlThrows(encoded)
       \/ Replay(decodeMoves(fromBase64Url(encoded)), 1,
                 Result(createInitialState, <<>>)).threw

decodeGameState(encoded) ==
    IF encoded = <<>> THEN Result(createInitialState, <<>>)
    ELSE IF fromBase64UrlThrows(encoded) THEN Result(createInitialState, <<>>)
    ELSE LET run == Replay(decodeMoves(fromBase64Url(encoded)), 1,
                           Result(createInitialState, <<>>))
         IN  IF run.threw THEN Result(createInitialState, <<>>) ELSE run.result

\* The candidate moves of decodeGameState: decodeMoves of the token's bytes,
\* none when the token is empty or fromBase64Url throws.
Candidates(encoded) ==
    IF encoded = <<>> \/ fromBase64UrlThrows(encoded) THEN <<>>
    ELSE decodeMoves(fromBase64Url(encoded))

\* appendMoveToEncoded pushing onto the candidates, not the accepted moves.
appendMoveToEncodedRaw(existingEncoded, move) ==
    encodeGameFromMoves(Append(Candidates(existingEncoded), move))

appendMoveToEncoded(existingEncoded, move) ==
    encodeGameFromMoves(Append(decodeGameState(existingEncoded).moves, move))

\* ------------------------------------------------------------------------
\* chess.ts: algebraic squares
\* ------------------------------------------------------------------------

Files == <<"a", "b", "c", "d", "e", "f", "g", "h">>

\* algebraicToSquare of the file letter and the rank digit.
algebraicToSquare(file, rank) ==
    <<8 - rank, (CHOOSE i \in 1..8 : Files[i] = file) - 1>>

\* The move from one algebraic square to another, without promotion.
Go(f1, r1, f2, r2) ==
    Mv(algebraicToSquare(f1, r1), algebraicToSquare(f2, r2), Undefined)

\* The same with a promotion piece.
GoPromote(f1, r1, f2, r2, promotion) ==
    Mv(algebraicToSquare(f1, r1), algebraicToSquare(f2, r2), promotion)

\* ------------------------------------------------------------------------
\* The game: moves chosen by the two players, each validated by isLegalMove
\* and applied by applyMove, from the initial position.
\* ------------------------------------------------------------------------

MaxPlies == 10

\* Castling play: the king's pawn, the knight and the bishop leaving, the
\* rook leaving h1 and returning, castling, the king stepping up; Black's
\* rook leaving a8 and returning.
CastlingPlay ==
    {Go("e", 2, "e", 4), Go("g", 1, "f", 3), Go("f", 1, "e", 2),
     Go("h", 1, "g", 1), Go("g", 1, "h", 1), Go("e", 1, "g", 1),
     Go("e", 1, "e", 2),
     Go("a", 7, "a", 5), Go("a", 8, "a", 6), Go("a", 6, "a", 8)}

\* Check play: the queen's check on h5, the pawn that blocks it, the pinned
\* f-pawn, the captures on g6.
CheckPlay ==
    {Go("e", 2, "e", 4), Go("d", 1, "h", 5), Go("h", 5, "g", 6),
     Go("h", 5, "e", 5), Go("g", 1, "f", 3),
     Go("f", 7, "f", 6), Go("g", 7, "g", 6), Go("e", 7, "e", 5),
     Go("h", 7, "g", 6), Go("d", 8, "e", 7), Go("e", 8, "e", 7)}

\* Pawn play: the double steps and the en-passant capture on d6, the a-pawn
\* capturing its way to a8 and promoting.
PawnPlay ==
    {Go("e", 2, "e", 4), Go("e", 4, "e", 5), Go("e", 5, "d", 6),
     Go("a", 2, "a", 4), Go("a", 4, "b", 5), Go("b", 5, "a", 6),
     Go("a", 6, "b", 7), GoPromote("b", 7, "a", 8, "q"),
     GoPromote("b", 7, "a", 8, "n"),
     Go("b", 8, "c", 6), Go("d", 7, "d", 5), Go("b", 7, "b", 5),
     Go("a", 7, "a", 6), Go("c", 8, "b", 7)}

\* The sets of moves a game's players choose among.
Books == <<CastlingPlay, CheckPlay, PawnPlay>>

\* No appendMoveToEncoded call has been made on the token as it stands.
NoCall == [t |-> <<>>, m |-> NullMove]

Init ==
    /\ state = createInitialState
    /\ moves = <<>>
    /\ book \in DOMAIN Books
    /\ token = <<>>
    /\ cut = 0
    /\ last = NoCall
    /\ list = <<>>
    /\ heap = NoHeap

\* A player plays a move the rules accept.
Play(m) ==
    /\ Len(moves) < MaxPlies
    /\ isLegalMove(state, m)
    /\ state' = applyMove(state, m)
    /\ moves' = Append(moves, m)
    /\ UNCHANGED <<book, token, cut, last, list, heap>>

Next == \E m \in Books[book] : Play(m)

Spec == Init /\ [][Next]_vars

\* ------------------------------------------------------------------------
\* Properties of the game
\* ------------------------------------------------------------------------

\* C1. Round trip: the link of the moves played (the empty text for no move)
\* decodes to exactly these moves, index by index, and to the position that
\* applying them in order from the initial position gave.
RoundTrip ==
    decodeGameState(encodeGameFromMoves(moves)) = Result(state, moves)

\* A nine-ply game ending in a promotion to a knight has been encoded and
\* decoded back.
RoundTripWitness ==
    /\ Len(moves) = 9
    /\ moves[9].promotion = "n"
    /\ Len(encodeGameFromMoves(moves)) = 24
    /\ decodeGameState(encodeGameFromMoves(moves)).moves = moves

\* Some pseudo-legal move of the side to move lands on the other side's king.
KingCapturable(st) ==
    \E sq \in Squares :
        \E move \in generatePseudoLegalMoves(st, sq[1], sq[2]) :
            st.board[move.to[1]][move.to[2]].type = "k"

\* C8. Check safety: no move of getAllLegalMoves leaves the mover's king in
\* check, and in the position reached the side that is not to move is not in
\* check: none of the opponent's pieces could take its king.
CheckSafety ==
    /\ \A move \in getAllLegalMoves(state) :
           ~isInCheck(applyMove(state, move).board, state.turn)
    /\ ~isInCheck(state.board, Enemy(state.turn))
    /\ ~KingCapturable(state)

\* The side to move is in check, has an answer, and has a pseudo-legal move
\* that would leave its king in check, which getAllLegalMoves has dropped.
CheckSafetyWitness ==
    /\ isInCheck(state.board, state.turn)
    /\ getAllLegalMoves(state) # {}
    /\ \E sq \in Squares :
           \E move \in generatePseudoLegalMoves(state, sq[1], sq[2]) :
               /\ isInCheck(applyMove(state, move).board, state.turn)
               /\ move \notin getAllLegalMoves(state)

\* C9. One king of each colour stands on the board, no move of the side to
\* move (legal or only pseudo-legal) takes a king, and findKing throws in
\* none of isInCheck, getGameStatus (whose first step is getAllLegalMoves)
\* and decodeGameState (replaying the game's link).
KingsPresent ==
    /\ \A c \in {"w", "b"} : Cardinality(KingSquares(state.board, c)) = 1
    /\ ~KingCapturable(state)
    /\ \A c \in {"w", "b"} : ~isInCheckThrows(state.board, c)
    /\ ~getGameStatusThrows(state)
    /\ ~decodeGameStateCatches(encodeGameFromMoves(moves))

\* A king stands attacked by the queen, with pieces already taken off the
\* board, and both kings are found.
KingsPresentWitness ==
    /\ isInCheck(state.board, state.turn)
    /\ Cardinality({sq \in Squares : state.board[sq[1]][sq[2]] # NullPiece}) < 32
    /\ findKing(state.board, "w") = algebraicToSquare("e", 1)
    /\ findKing(state.board, "b") = algebraicToSquare("e", 8)

CastlingRightNames ==
    {"whiteKingside", "whiteQueenside", "blackKingside", "blackQueenside"}

\* The king's two-square move that uses the right.
CastlingMove(right) ==
    CASE right = "whiteKingside" -> Go("e", 1, "g", 1)
      [] right = "whiteQueenside" -> Go("e", 1, "c", 1)
      [] right = "blackKingside" -> Go("e", 8, "g", 8)
      [] right = "blackQueenside" -> Go("e", 8, "c", 8)

\* The position with one castling right set to a value.
WithRight(st, right, value) ==
    [st EXCEPT !.castling = [st.castling EXCEPT ![right] = value]]

\* C10. Castling rights are monotonic: a right that is false stays false in
\* every later position, and while it is false the king's castling move on
\* that side is not legal, also with the rook back on its corner.
CastlingMonotonic ==
    /\ [][\A right \in CastlingRightNames :
              ~state.castling[right] => ~state'.castling[right]]_vars
    /\ [](\A right \in CastlingRightNames :
              ~state.castling[right] =>
                  \/ state.board[CastlingMove(right).from[1]]
                                [CastlingMove(right).from[2]].type # "k"
                  \/ ~isLegalMove(state, CastlingMove(right)))

\* White's king has not moved, its rook left h1 and came back, and castling
\* kingside is refused only because the right is false.
CastlingMonotonicWitness ==
    /\ ~state.castling.whiteKingside
    /\ state.castling.whiteQueenside
    /\ state.board[7][7] = Piece("r", "w")
    /\ ~isLegalMove(state, CastlingMove("whiteKingside"))
    /\ isLegalMove(WithRight(state, "whiteKingside", TRUE),
                   CastlingMove("whiteKingside"))

\* ------------------------------------------------------------------------
\* The link: a token grown by appendMoveToEncoded as moves are submitted,
\* and altered or cut short on its way (the g parameter is untrusted text).
\* ------------------------------------------------------------------------

MaxSent == 3

\* The moves submitted to appendMoveToEncoded: legal in some positions and
\* not in others, and the king's-pawn step carrying a promotion to king.
AppendInputs ==
    {Go("e", 2, "e", 4), Go("g", 1, "f", 3), Go("a", 2, "a", 4),
     Go("e", 7, "e", 5), Go("a", 7, "a", 6),
     GoPromote("e", 2, "e", 4, "k")}

\* The characters written over a character of the token.
CharInputs == {"A", "Q", "s", "+", "!"}

RECURSIVE PositionAfter(_, _)
\* applyMove over the first k moves of a list, from the initial position.
PositionAfter(ms, k) ==
    IF k = 0 THEN createInitialState
    ELSE applyMove(PositionAfter(ms, k - 1), ms[k])

CodecInit ==
    /\ state = createInitialState
    /\ moves = <<>>
    /\ book = 1
    /\ token = <<>>
    /\ cut = 0
    /\ last = NoCall
    /\ list = <<>>
    /\ heap = NoHeap

\* A move is submitted on a link as appendMoveToEncoded built it: the next
\* link is appendMoveToEncoded of the token and the move.  The game advances when the move is legal in it, and
\* the new token is its link when it is encodeGameFromMoves of its moves.
AppendMove(m) ==
    LET played == Append(moves, m)
        next == appendMoveToEncoded(token, m)
    IN  /\ cut <= 0
        /\ Len(moves) < MaxSent
        /\ token' = next
        /\ last' = [t |-> token, m |-> m]
        /\ IF isLegalMove(state, m) /\ next = encodeGameFromMoves(played)
           THEN state' = applyMove(state, m) /\ moves' = played /\ cut' = 0
           ELSE cut' = -1 /\ UNCHANGED <<state, moves>>
        /\ UNCHANGED <<book, list, heap>>

\* Character i of a legal game's link is overwritten.
Corrupt(i, c) ==
    /\ cut = 0
    /\ i \in 1..Len(token)
    /\ c # token[i]
    /\ token' = [token EXCEPT ![i] = c]
    /\ cut' = i
    /\ last' = NoCall
    /\ UNCHANGED <<state, moves, book, list, heap>>

\* A legal game's link is cut short to its first n characters.
Truncate(n) ==
    /\ cut = 0
    /\ n \in 0..(Len(token) - 1)
    /\ token' = SubSeq(token, 1, n)
    /\ cut' = n + 1
    /\ last' = NoCall
    /\ UNCHANGED <<state, moves, book, list, heap>>

CodecNext ==
    \/ \E m \in AppendInputs : AppendMove(m)
    \/ \E i \in 1..Len(token) : \E c \in CharInputs : Corrupt(i, c)
    \/ \E n \in 0..Len(token) : Truncate(n)

CodecSpec == CodecInit /\ [][CodecNext]_vars

\* C2. For every token, clean, altered or cut short, the moves decodeGameState
\* returns are the longest prefix of the token's candidate moves in which
\* every move is legal in the position the moves before it give, the state
\* returned is that prefix applied from the initial position, and nothing
\* after the first rejected candidate is accepted.
ReplayIsLongestLegalPrefix ==
    LET cands == Candidates(token)
        got == decodeGameState(token)
        n == Len(got.moves)
    IN  /\ n <= Len(cands)
        /\ got.moves = SubSeq(cands, 1, n)
        /\ \A i \in 1..n : isLegalMove(PositionAfter(cands, i - 1), cands[i])
        /\ n < Len(cands) => ~isLegalMove(PositionAfter(cands, n), cands[n + 1])
        /\ got.state = PositionAfter(cands, n)

\* An altered link whose replay stopped at a rejected candidate although a
\* later candidate is a legal move in the position where it stopped.
ReplayIsLongestLegalPrefixWitness ==
    LET cands == Candidates(token)
        got == decodeGameState(token)
        n == Len(got.moves)
    IN  /\ cut > 0
        /\ n + 1 < Len(cands)
        /\ \E j \in (n + 2)..Len(cands) : isLegalMove(got.state, cands[j])
        /\ got.moves = SubSeq(cands, 1, n)

\* The base64url alphabet of toBase64Url's output.
UrlAlphabet == (Base64Chars \ {"+", "/"}) \cup {"-", "_"}

NotBase64Url(str) ==
    \/ \E i \in 1..Len(str) : str[i] \notin UrlAlphabet
    \/ fromBase64UrlThrows(str)

\* C3. decodeGameState returns a (state, moves) pair for every token, and
\* the initial position with no moves for a token that has a character
\* outside the base64url alphabet or that cannot be base64-decoded.
MalformedFallsBack ==
    /\ DOMAIN decodeGameState(token) = {"state", "moves"}
    /\ NotBase64Url(token) =>
           decodeGameState(token) = Result(createInitialState, <<>>)

\* C4. A token whose bytes are odd in number decodes to the initial position
\* with no moves, whatever its complete records hold.
OddLengthFallsBack ==
    (/\ token # <<>>
     /\ ~fromBase64UrlThrows(token)
     /\ (Len(fromBase64Url(token)) % 2) = 1)
    => decodeGameState(token) = Result(createInitialState, <<>>)

\* C5 as stated. The moves decoded from the link of a legal game altered or
\* cut short from some character on are a strict prefix of the game's moves.
TamperedIsStrictPrefix ==
    cut > 0 =>
        LET got == decodeGameState(token).moves
        IN  /\ Len(got) < Len(moves)
            /\ got = SubSeq(moves, 1, Len(got))

\* The 16-bit records that lie wholly before character k of a token.
RecordsBefore(k) == ((k - 1) * 6) \div 16

\* C5. The moves decoded from the link of a legal game altered or cut short
\* from some character on are none, the altered text failing to
\* base64-decode, or they start with the game's moves whose records lie
\* wholly before that character; what follows those may differ from the game.
TamperedKeepsIntactRecords ==
    cut > 0 =>
        LET got == decodeGameState(token).moves
            k == RecordsBefore(cut)
        IN  \/ decodeGameStateCatches(token) /\ got = <<>>
            \/ Len(got) >= k /\ SubSeq(got, 1, k) = SubSeq(moves, 1, k)

\* An altered link that decodes to the game's first moves followed by a move
\* the game did not have at that index.
TamperedKeepsIntactRecordsWitness ==
    LET got == decodeGameState(token).moves
        k == RecordsBefore(cut)
    IN  /\ cut > 0
        /\ k >= 1
        /\ Len(moves) > k
        /\ Len(got) > k
        /\ SubSeq(got, 1, k) = SubSeq(moves, 1, k)
        /\ got[k + 1] # moves[k + 1]

\* C6 as stated. After appendMoveToEncoded(t, m) of any move m, with (s, L)
\* decoded from t: the new token decodes to L followed by m when m is legal
\* in s and to exactly (s, L) when it is not, and holds no rejected tail of t.
AppendLawEveryMove ==
    last # NoCall =>
        LET before == decodeGameState(last.t)
            after == decodeGameState(token)
        IN  /\ Len(Candidates(token)) = Len(before.moves) + 1
            /\ IF isLegalMove(before.state, last.m)
               THEN after.moves = Append(before.moves, last.m)
               ELSE after = before

\* The promotions decodeMove gives back as encodeMove took them.
PackedPromotions ==
    {PromotionPieces[i] : i \in DOMAIN PromotionPieces} \cup {Undefined}

\* C6. The same for a move m whose promotion is absent or one of queen,
\* rook, bishop, knight; in the legal case the state decoded is applyMove
\* of s and m.
AppendLaw ==
    (last # NoCall /\ last.m.promotion \in PackedPromotions) =>
        LET before == decodeGameState(last.t)
            after == decodeGameState(token)
        IN  /\ Len(Candidates(token)) = Len(before.moves) + 1
            /\ IF isLegalMove(before.state, last.m)
               THEN after = Result(applyMove(before.state, last.m),
                                   Append(before.moves, last.m))
               ELSE after = before

\* A legal move appended to a token with a rejected tail: the tail is gone
\* and the move follows the accepted moves.
AppendLawWitness ==
    LET before == decodeGameState(last.t)
        after == decodeGameState(token)
    IN  /\ last # NoCall
        /\ last.m.promotion \in PackedPromotions
        /\ Len(Candidates(last.t)) > Len(before.moves)
        /\ isLegalMove(before.state, last.m)
        /\ after.moves = Append(before.moves, last.m)
        /\ Len(Candidates(token)) = Len(after.moves)

\* ------------------------------------------------------------------------
\* Packing: a caller's move list handed to encodeMoves and read back.
\* ------------------------------------------------------------------------

MaxList == 2

\* Every move with squares on the board and a promotion that is absent or
\* one of queen, rook, bishop, knight.
PackInputs ==
    {Mv(from, to, promotion) :
        from \in Squares, to \in Squares, promotion \in PackedPromotions}

\* The moves that follow the first in a list.
FollowInputs == {Go("e", 2, "e", 4), GoPromote("a", 7, "a", 8, "q")}

PackInit ==
    /\ state = createInitialState
    /\ moves = <<>>
    /\ book = 1
    /\ token = <<>>
    /\ cut = 0
    /\ last = NoCall
    /\ list = <<>>
    /\ heap = NoHeap

First ==
    /\ list = <<>>
    /\ \E m \in PackInputs : list' = <<m>>
    /\ UNCHANGED <<state, moves, book, token, cut, last, heap>>

Push(m) ==
    /\ list # <<>>
    /\ Len(list) < MaxList
    /\ list' = Append(list, m)
    /\ UNCHANGED <<state, moves, book, token, cut, last, heap>>

PackNext ==
    \/ First
    \/ \E m \in FollowInputs : Push(m)

PackSpec == PackInit /\ [][PackNext]_vars

\* The promotion codes of the link format.
PromotionCode(promotion) ==
    CASE promotion = Undefined -> 0
      [] promotion = "q" -> 1
      [] promotion = "r" -> 2
      [] promotion = "b" -> 3
      [] promotion = "n" -> 4

\* C7. A move from (r1,c1) to (r2,c2) with promotion code p is packed as
\* (r1*8+c1)*1024 + (r2*8+c2)*16 + p, high byte first; n moves give 2n
\* bytes in play order; decodeMove gives back the move encodeMove took.
PackedLayout ==
    LET bytes == encodeMoves(list)
    IN  /\ Len(bytes) = 2 * Len(list)
        /\ decodeMoves(bytes) = list
        /\ \A i \in 1..Len(list) :
              LET m == list[i]
                  v == ((m.from[1] * 8 + m.from[2]) * 1024)
                       + ((m.to[1] * 8 + m.to[2]) * 16)
                       + PromotionCode(m.promotion)
              IN  /\ encodeMove(m) = v
                  /\ bytes[2 * i - 1] = v \div 256
                  /\ bytes[2 * i] = v % 256
                  /\ decodeMove(encodeMove(m)) = m

\* Two moves packed, the first from h1 to h1 promoting to a knight: every
\* bit of its squares set.
PackedLayoutWitness ==
    /\ Len(list) = 2
    /\ list[1] = GoPromote("h", 1, "h", 1, "n")
    /\ list[2] = GoPromote("a", 7, "a", 8, "q")
    /\ encodeMoves(list) = <<255, 244, 32, 1>>
    /\ decodeMoves(encodeMoves(list)) = list

\* ------------------------------------------------------------------------
\* Pawn play: double steps met by a pawn beside the square passed over, the
\* capture taken at once or put off by a knight move.
\* ------------------------------------------------------------------------

MaxPawnPlies == 7

EnPassantPlay ==
    {Go("e", 2, "e", 4), Go("e", 4, "e", 5), Go("e", 5, "d", 6),
     Go("e", 5, "f", 6), Go("g", 1, "f", 3), Go("f", 3, "g", 1),
     Go("b", 8, "c", 6), Go("c", 6, "b", 8), Go("d", 7, "d", 5),
     Go("f", 7, "f", 5), Go("d", 5, "d", 4), Go("d", 4, "e", 3),
     Go("c", 2, "c", 4), Go("d", 4, "c", 3)}

PawnInit ==
    /\ state = createInitialState
    /\ moves = <<>>
    /\ book = 1
    /\ token = <<>>
    /\ cut = 0
    /\ last = NoCall
    /\ list = <<>>
    /\ heap = NoHeap

\* A player plays a move of the pawn play that the rules accept.
PlayPawns(m) ==
    /\ Len(moves) < MaxPawnPlies
    /\ isLegalMove(state, m)
    /\ state' = applyMove(state, m)
    /\ moves' = Append(moves, m)
    /\ UNCHANGED <<book, token, cut, last, list, heap>>

PawnNext == \E m \in EnPassantPlay : PlayPawns(m)

PawnSpec == PawnInit /\ [][PawnNext]_vars

\* The piece on a square given as <<row, col>>.
At(board, sq) == board[sq[1]][sq[2]]

\* The legal pawn moves onto the en-passant target.
EnPassantCaptures(st) ==
    IF st.enPassant = NullSquare THEN {}
    ELSE {m \in getAllLegalMoves(st) :
              At(st.board, m.from).type = "p" /\ m.to = st.enPassant}

\* C11. After e2e4, b8c6, e4e5, d7d5 the capture e5 to d6 is legal and
\* applying it puts the white pawn on d6 and empties e5 and d5; and every
\* en-passant capture removes the pawn that just made the double step, from
\* the square where it stands, moves the capturing pawn to the target and
\* changes no other square.
EnPassantCapture ==
    /\ moves = <<Go("e", 2, "e", 4), Go("b", 8, "c", 6),
                 Go("e", 4, "e", 5), Go("d", 7, "d", 5)>> =>
           LET after == applyMove(state, Go("e", 5, "d", 6))
           IN  /\ isLegalMove(state, Go("e", 5, "d", 6))
               /\ At(after.board, algebraicToSquare("d", 6)) = Piece("p", "w")
               /\ At(after.board, algebraicToSquare("e", 5)) = NullPiece
               /\ At(after.board, algebraicToSquare("d", 5)) = NullPiece
    /\ \A m \in EnPassantCaptures(state) :
           LET after == applyMove(state, m)
               stepped == moves[Len(moves)]
           IN  /\ At(state.board, stepped.to) = Piece("p", Enemy(state.turn))
               /\ Abs(stepped.to[1] - stepped.from[1]) = 2
               /\ stepped.to # m.to
               /\ At(after.board, stepped.to) = NullPiece
               /\ At(after.board, m.to) = Piece("p", state.turn)
               /\ At(after.board, m.from) = NullPiece
               /\ \A sq \in Squares \ {stepped.to, m.to, m.from} :
                      At(after.board, sq) = At(state.board, sq)

\* The capture e5 to d6 has been played after e2e4, b8c6, e4e5, d7d5: the
\* white pawn stands on d6, d5 and e5 are empty, and Black has seven pawns.
EnPassantCaptureWitness ==
    /\ moves = <<Go("e", 2, "e", 4), Go("b", 8, "c", 6), Go("e", 4, "e", 5),
                 Go("d", 7, "d", 5), Go("e", 5, "d", 6)>>
    /\ At(state.board, algebraicToSquare("d", 6)) = Piece("p", "w")
    /\ At(state.board, algebraicToSquare("d", 5)) = NullPiece
    /\ At(state.board, algebraicToSquare("e", 5)) = NullPiece
    /\ Cardinality({sq \in Squares : At(state.board, sq) = Piece("p", "b")}) = 7

\* ------------------------------------------------------------------------
\* Game status: getGameStatus on the positions of a short game from the
\* initial position and on endgame positions of two kings and at most one
\* more piece, each played on by the moves the rules accept.
\* ------------------------------------------------------------------------

MaxMatePlies == 4

MaxEndgamePlies == 1

\* The fool's mate and moves beside it.
MatePlay ==
    {Go("f", 2, "f", 3), Go("g", 2, "g", 4), Go("g", 2, "g", 3),
     Go("e", 7, "e", 5), Go("d", 8, "h", 4), Go("d", 8, "f", 6)}

NoCastling ==
    [whiteKingside |-> FALSE, whiteQueenside |-> FALSE,
     blackKingside |-> FALSE, blackQueenside |-> FALSE]

\* Where the white and the black king stand.
KingSpots ==
    {<<algebraicToSquare("b", 6), algebraicToSquare("a", 8)>>,
     <<algebraicToSquare("e", 1), algebraicToSquare("d", 5)>>}

ExtraSpots == {algebraicToSquare("b", 7), algebraicToSquare("c", 6),
               algebraicToSquare("c", 8), algebraicToSquare("h", 2)}

ExtraPieces == {Piece("n", "w"), Piece("r", "w"), Piece("n", "b")}

\* The third piece of an endgame: none (a null piece), or a piece on a spot.
Extras ==
    {[sq |-> NullSquare, piece |-> NullPiece]}
    \cup {[sq |-> sq, piece |-> piece] : sq \in ExtraSpots, piece \in ExtraPieces}

ClockInputs == {0, 99, 100}

\* A position as applyMove leaves it late in a game: no castling right, no
\* en-passant target.
Endgame(wk, bk, extra, turn, clock) ==
    [board |-> [r \in Rows |-> [c \in Cols |->
                   IF <<r, c>> = wk THEN Piece("k", "w")
                   ELSE IF <<r, c>> = bk THEN Piece("k", "b")
                   ELSE IF <<r, c>> = extra.sq THEN extra.piece
                   ELSE NullPiece]],
     turn |-> turn,
     castling |-> NoCastling,
     enPassant |-> NullSquare,
     halfmoveClock |-> clock,
     fullmoveNumber |-> 60,
     lastMove |-> NullMove]

\* The endgames a game can reach: the side that has just moved is not in
\* check (so the kings stand apart).
Endgames ==
    {st \in {Endgame(kings[1], kings[2], extra, turn, clock) :
                 kings \in KingSpots, extra \in Extras,
                 turn \in {"w", "b"}, clock \in ClockInputs} :
        ~isInCheck(st.board, Enemy(st.turn))}

StatusInit ==
    /\ state \in {createInitialState} \cup Endgames
    /\ moves = <<>>
    /\ book = 1
    /\ token = <<>>
    /\ cut = 0
    /\ last = NoCall
    /\ list = <<>>
    /\ heap = NoHeap

\* A move of the short game is played from the initial position on.
PlayMate(m) ==
    /\ Cardinality(Occupied(state.board)) > 3
    /\ Len(moves) < MaxMatePlies
    /\ isLegalMove(state, m)
    /\ state' = applyMove(state, m)
    /\ moves' = Append(moves, m)
    /\ UNCHANGED <<book, token, cut, last, list, heap>>

\* Any legal move is played in an endgame.
PlayEndgame ==
    /\ Cardinality(Occupied(state.board)) <= 3
    /\ Len(moves) < MaxEndgamePlies
    /\ \E m \in getAllLegalMoves(state) :
           /\ state' = applyMove(state, m)
           /\ moves' = Append(moves, m)
    /\ UNCHANGED <<book, token, cut, last, list, heap>>

StatusNext ==
    \/ \E m \in MatePlay : PlayMate(m)
    \/ PlayEndgame

StatusSpec == StatusInit /\ [][StatusNext]_vars

FoolsMate ==
    <<Go("f", 2, "f", 3), Go("e", 7, "e", 5), Go("g", 2, "g", 4), Go("d", 8, "h", 4)>>

\* C12. getGameStatus is 'checkmate' exactly when the side to move has no
\* legal move and is in check, and 'stalemate' exactly when it has no legal
\* move and is not in check, whatever the clock and the material; after
\* f2f3, e7e5, g2g4, d8h4 from the initial position it is 'checkmate' and
\* getAllLegalMoves is empty.
MateClassification ==
    LET none == getAllLegalMoves(state) = {}
        check == isInCheck(state.board, state.turn)
        status == getGameStatus(state)
    IN  /\ status = "checkmate" <=> (none /\ check)
        /\ status = "stalemate" <=> (none /\ ~check)
        /\ (moves = FoolsMate /\ Cardinality(Occupied(state.board)) = 32) =>
               status = "checkmate" /\ none

\* The fool's mate has been played: White is in check without a legal move.
MateClassificationWitness ==
    /\ moves = FoolsMate
    /\ Cardinality(Occupied(state.board)) = 32
    /\ state.turn = "w"
    /\ isInCheck(state.board, "w")
    /\ getAllLegalMoves(state) = {}
    /\ getGameStatus(state) = "checkmate"

\* C13. With a legal move for the side to move, getGameStatus is the
\* fifty-move draw when the half-move clock is exactly 100 and is not when
\* the clock is 99.
FiftyMoveRule ==
    getAllLegalMoves(state) # {} =>
        /\ state.halfmoveClock = 100 => getGameStatus(state) = "draw_50_move"
        /\ state.halfmoveClock = 99 => getGameStatus(state) # "draw_50_move"

\* A move without capture has taken the clock from 99 to 100, the side to
\* move has a legal move, and the status is the fifty-move draw.
FiftyMoveRuleWitness ==
    /\ Len(moves) = 1
    /\ state.halfmoveClock = 100
    /\ getAllLegalMoves(state) # {}
    /\ getGameStatus(state) = "draw_50_move"

\* The pieces on the board are the two kings and one piece of the type.
KingsAnd(board, type) ==
    /\ Cardinality(Occupied(board)) = 3
    /\ Cardinality({sq \in Squares : At(board, sq).type = "k"}) = 2
    /\ \E sq \in Squares : At(board, sq).type = type

\* C14 as stated. getGameStatus is 'draw_insufficient' for every position of
\* the two kings alone and of king and knight against king, and never for
\* king and rook against king.
BareKingsAlwaysDrawn ==
    /\ Cardinality(Occupied(state.board)) = 2 =>
           getGameStatus(state) = "draw_insufficient"
    /\ KingsAnd(state.board, "n") => getGameStatus(state) = "draw_insufficient"
    /\ KingsAnd(state.board, "r") => getGameStatus(state) # "draw_insufficient"

\* C14. The same for the positions in which the side to move has a legal
\* move and the half-move clock is below 100; in the others the two kings
\* alone, and king and knight against king, give 'stalemate' or the
\* fifty-move draw, which getGameStatus tests first.
BareKingsDrawn ==
    /\ (getAllLegalMoves(state) # {} /\ state.halfmoveClock < 100) =>
           /\ Cardinality(Occupied(state.board)) = 2 =>
                  getGameStatus(state) = "draw_insufficient"
           /\ KingsAnd(state.board, "n") =>
                  getGameStatus(state) = "draw_insufficient"
    /\ (Cardinality(Occupied(state.board)) = 2 \/ KingsAnd(state.board, "n")) =>
           getGameStatus(state) \in {"draw_insufficient", "stalemate", "draw_50_move"}
    /\ KingsAnd(state.board, "r") => getGameStatus(state) # "draw_insufficient"

\* King and knight against king after a move, the side to move with a legal
\* move and the clock below 100: the status is 'draw_insufficient'.
BareKingsDrawnWitness ==
    /\ Len(moves) = 1
    /\ KingsAnd(state.board, "n")
    /\ getAllLegalMoves(state) # {}
    /\ state.halfmoveClock < 100
    /\ getGameStatus(state) = "draw_insufficient"

\* The pieces of the first rank, from the a-file to the h-file.
StartingOrder == <<"r", "n", "b", "q", "k", "b", "n", "r">>

\* The starting layout of chess, white to move, every castling right held,
\* no en-passant target, no last move, the half-move clock at zero.
StartingPosition(st) ==
    /\ \A i \in 1..8 :
           /\ At(st.board, algebraicToSquare(Files[i], 1)) = Piece(StartingOrder[i], "w")
           /\ At(st.board, algebraicToSquare(Files[i], 2)) = Piece("p", "w")
           /\ \A rank \in 3..6 : At(st.board, algebraicToSquare(Files[i], rank)) = NullPiece
           /\ At(st.board, algebraicToSquare(Files[i], 7)) = Piece("p", "b")
           /\ At(st.board, algebraicToSquare(Files[i], 8)) = Piece(StartingOrder[i], "b")
    /\ st.turn = "w"
    /\ \A right \in CastlingRightNames : st.castling[right]
    /\ st.enPassant = NullSquare
    /\ st.lastMove = NullMove
    /\ st.halfmoveClock = 0

\* C15 as stated. Before any move the position is the starting position
\* with both clocks, the half-move clock and the full-move counter, at zero.
StartsWithClocksAtZero ==
    moves = <<>> =>
        /\ StartingPosition(state)
        /\ StartingPosition(createInitialState)
        /\ state.fullmoveNumber = 0
        /\ createInitialState.fullmoveNumber = 0

\* C15. Before any move the position is the starting position with the
\* half-move clock at zero and the full-move counter at one.
StartsAtMoveOne ==
    moves = <<>> =>
        /\ StartingPosition(state)
        /\ StartingPosition(createInitialState)
        /\ state.fullmoveNumber = 1
        /\ createInitialState.fullmoveNumber = 1

\* The game has not begun: the position is createInitialState's, the white
\* king on e1, the black queen on d8, the full-move counter at one.
StartsAtMoveOneWitness ==
    /\ moves = <<>>
    /\ state = createInitialState
    /\ At(state.board, algebraicToSquare("e", 1)) = Piece("k", "w")
    /\ At(state.board, algebraicToSquare("d", 8)) = Piece("q", "b")
    /\ state.fullmoveNumber = 1
    /\ state.halfmoveClock = 0

\* ------------------------------------------------------------------------
\* Objects: the positions of a game as the objects they are made of.  A
\* position object refers to its board array, the board array to its eight
\* row arrays, the position to its castling object; applyMove writes into
\* the rows, the castling object and the position object of the copy that
\* cloneState gave it.  Pieces and square pairs are never written into and
\* are kept as values.
\* ------------------------------------------------------------------------

MaxHeapPlies == 5

\* The objects of a position with the value st, allocated after the cells:
\* the position, its board array, the rows, the castling object.
Store(cells, st) ==
    LET n == Len(cells)
    IN  cells
        \o <<[kind |-> "state", board |-> n + 2, castling |-> n + 11,
              turn |-> st.turn, enPassant |-> st.enPassant,
              halfmoveClock |-> st.halfmoveClock,
              fullmoveNumber |-> st.fullmoveNumber, lastMove |-> st.lastMove],
             [kind |-> "board", rows |-> [r \in 1..8 |-> n + 2 + r]]>>
        \o [r \in 1..8 |-> [kind |-> "row", squares |-> st.board[r - 1]]]
        \o <<[kind |-> "castling", rights |-> st.castling]>>

\* The value of the position object at an address.
Read(cells, a) ==
    [board |-> [r \in Rows |-> cells[cells[cells[a].board].rows[r + 1]].squares],
     turn |-> cells[a].turn,
     castling |-> cells[cells[a].castling].rights,
     enPassant |-> cells[a].enPassant,
     halfmoveClock |-> cells[a].halfmoveClock,
     fullmoveNumber |-> cells[a].fullmoveNumber,
     lastMove |-> cells[a].lastMove]

\* The addresses of the objects a position is made of.
Reach(cells, a) ==
    {a, cells[a].board, cells[a].castling}
    \cup {cells[cells[a].board].rows[r] : r \in 1..8}

\* A copy of the position object alone, its board and castling object shared
\* with the original.
cloneStateShallow(cells, a) == Append(cells, cells[a])

\* cloneState: a new position object with a new board array, new rows and a
\* new castling object, at address Len(cells) + 1.
cloneState(cells, a) == Store(cells, Read(cells, a))

\* applyMove on objects: the copy is made, then the rows of the from and to
\* squares (where every board write of applyMove lands), the castling
\* object and the fields of the copy are written through the copy.
applyMoveOnHeap(cells, a, move) ==
    LET n == Len(cells) + 1
        c0 == cloneState(cells, a)
        after == applyMove(Read(cells, a), move)
        rowAt(c, r) == c[c[n].board].rows[r + 1]
        c1 == [c0 EXCEPT ![rowAt(c0, move.from[1])].squares = after.board[move.from[1]]]
        c2 == [c1 EXCEPT ![rowAt(c1, move.to[1])].squares = after.board[move.to[1]]]
        c3 == [c2 EXCEPT ![c2[n].castling].rights = after.castling]
    IN  [c3 EXCEPT ![n].turn = after.turn,
                   ![n].enPassant = after.enPassant,
                   ![n].halfmoveClock = after.halfmoveClock,
                   ![n].fullmoveNumber = after.fullmoveNumber,
                   ![n].lastMove = after.lastMove]

RECURSIVE ApplyEach(_, _, _)
\* applyMove called on the position for each move of a set, each result
\* dropped when the caller has looked at it.
ApplyEach(cells, a, ms) ==
    IF ms = {} THEN cells
    ELSE LET m == CHOOSE x \in ms : TRUE
             kept == SubSeq(applyMoveOnHeap(cells, a, m), 1, Len(cells))
         IN  IF Len(kept) = Len(cells) THEN ApplyEach(kept, a, ms \ {m}) ELSE kept

\* isLegalMove on objects: applyMove is called when the move is pseudo-legal.
isLegalMoveOnHeap(cells, a, move) ==
    LET st == Read(cells, a)
    IN  IF /\ At(st.board, move.from) # NullPiece
           /\ move \in generatePseudoLegalMoves(st, move.from[1], move.from[2])
        THEN ApplyEach(cells, a, {move})
        ELSE cells

\* getLegalMoves on objects: applyMove is called for every pseudo-legal move.
getLegalMovesOnHeap(cells, a, row, col) ==
    ApplyEach(cells, a, generatePseudoLegalMoves(Read(cells, a), row, col))

\* getAllLegalMoves on objects: getLegalMoves for every piece of the side to
\* move; getGameStatus makes this call and then only reads.
getAllLegalMovesOnHeap(cells, a) ==
    LET st == Read(cells, a)
    IN  ApplyEach(cells, a,
            UNION {generatePseudoLegalMoves(st, sq[1], sq[2]) :
                       sq \in {s \in Squares : At(st.board, s).color = st.turn}})

\* The moves of the game whose positions are held.
HeapPlay ==
    {Go("e", 2, "e", 4), Go("g", 1, "f", 3), Go("f", 1, "c", 4), Go("e", 1, "g", 1),
     Go("e", 4, "d", 5), Go("d", 7, "d", 5), Go("e", 7, "e", 5), Go("d", 8, "d", 5)}

HeapInit ==
    /\ state = createInitialState
    /\ moves = <<>>
    /\ book = 1
    /\ token = <<>>
    /\ cut = 0
    /\ last = NoCall
    /\ list = <<>>
    /\ heap = [cells |-> Store(<<>>, createInitialState), held |-> <<1>>,
               op |-> "createInitialState"]

\* The position held last.
Tip == heap.held[Len(heap.held)]

\* A legal move is applied to the position held last and the result is held too.
CallApplyMove(m) ==
    /\ Len(moves) < MaxHeapPlies
    /\ isLegalMove(state, m)
    /\ state' = applyMove(state, m)
    /\ moves' = Append(moves, m)
    /\ heap' = [cells |-> applyMoveOnHeap(heap.cells, Tip, m),
                held |-> Append(heap.held, Len(heap.cells) + 1),
                op |-> "applyMove"]
    /\ UNCHANGED <<book, token, cut, last, list>>

CallIsLegalMove(m) ==
    /\ heap' = [heap EXCEPT !.cells = isLegalMoveOnHeap(heap.cells, Tip, m),
                            !.op = "isLegalMove"]
    /\ UNCHANGED <<state, moves, book, token, cut, last, list>>

CallGetLegalMoves(sq) ==
    /\ heap' = [heap EXCEPT !.cells = getLegalMovesOnHeap(heap.cells, Tip, sq[1], sq[2]),
                            !.op = "getLegalMoves"]
    /\ UNCHANGED <<state, moves, book, token, cut, last, list>>

CallGetAllLegalMoves ==
    /\ heap' = [heap EXCEPT !.cells = getAllLegalMovesOnHeap(heap.cells, Tip),
                            !.op = "getAllLegalMoves"]
    /\ UNCHANGED <<state, moves, book, token, cut, last, list>>

CallGetGameStatus ==
    /\ heap' = [heap EXCEPT !.cells = getAllLegalMovesOnHeap(heap.cells, Tip),
                            !.op = "getGameStatus"]
    /\ UNCHANGED <<state, moves, book, token, cut, last, list>>

HeapNext ==
    \/ \E m \in HeapPlay : CallApplyMove(m)
    \/ \E m \in HeapPlay : CallIsLegalMove(m)
    \/ \E m \in HeapPlay : CallGetLegalMoves(m.from)
    \/ CallGetAllLegalMoves
    \/ CallGetGameStatus

HeapSpec == HeapInit /\ [][HeapNext]_vars

\* C16. Every call of applyMove, isLegalMove, getLegalMoves,
\* getAllLegalMoves and getGameStatus leaves every position held before it
\* with the value it had (board, turn, castling rights, en-passant target,
\* clocks, last move), and the position applyMove returns shares no object
\* with a position held before.
CallsLeaveInputUnchanged ==
    [][/\ \A i \in 1..Len(heap.held) :
              Read(heap'.cells, heap.held[i]) = Read(heap.cells, heap.held[i])
       /\ \A i \in 1..Len(heap'.held) : \A j \in 1..Len(heap'.held) :
              i # j => Reach(heap'.cells, heap'.held[i])
                           \cap Reach(heap'.cells, heap'.held[j]) = {}
       /\ Read(heap'.cells, heap'.held[Len(heap'.held)]) = state']_vars

\* Three moves have been applied and getGameStatus called on the result:
\* the first position held still reads as the initial position, the second
\* as the position after the first move.
CallsLeaveInputUnchangedWitness ==
    /\ Len(heap.held) = 4
    /\ heap.op = "getGameStatus"
    /\ Read(heap.cells, heap.held[1]) = createInitialState
    /\ Read(heap.cells, heap.held[2]) = applyMove(createInitialState, moves[1])
    /\ Read(heap.cells, Tip) = state
    /\ state.board # createInitialState.board

\* The 16-bit records of a token as the loop of decodeMoves reads them.
Records(encoded) ==
    IF encoded = <<>> \/ fromBase64UrlThrows(encoded) THEN <<>>
    ELSE LET bytes == fromBase64Url(encoded)
         IN  [i \in 1..((Len(bytes) + 1) \div 2) |->
                 ByteAt(bytes, 2 * i - 2) * 256 + ByteAt(bytes, 2 * i - 1)]

\* C17. A record whose promotion code, its low four bits, is none of 0, 1,
\* 2, 3, 4 is not accepted as a move by decodeGameState, and no record after
\* it is: the accepted moves end before it.
MalformedRecordStopsReplay ==
    \A i \in 1..Len(Records(token)) :
        (Records(token)[i] % 16) > 4 => Len(decodeGameState(token).moves) < i


\* ------------------------------------------------------------------------
\* Castling: positions with both kings and all four rooks at home
\* ------------------------------------------------------------------------

MaxCastlePlies == 2

\* The castling moves, and king and rook moves that give rights up.
CastlePlay ==
    {Go("e", 1, "g", 1), Go("e", 1, "c", 1), Go("e", 8, "g", 8),
     Go("e", 8, "c", 8), Go("e", 1, "e", 2), Go("e", 8, "e", 7),
     Go("h", 1, "g", 1), Go("a", 8, "b", 8)}

AllCastling ==
    [whiteKingside |-> TRUE, whiteQueenside |-> TRUE,
     blackKingside |-> TRUE, blackQueenside |-> TRUE]

\* The rights a game can be left with while kings and rooks stand at home.
CastleRights ==
    {AllCastling,
     [whiteKingside |-> TRUE, whiteQueenside |-> FALSE,
      blackKingside |-> FALSE, blackQueenside |-> TRUE]}

\* The seventh piece: none, a rook on the fourth rank looking down a file, a
\* knight between king and rook or beside the squares the king crosses.
CastleExtras ==
    {[sq |-> NullSquare, piece |-> NullPiece]}
    \cup {[sq |-> algebraicToSquare(f, 4), piece |-> Piece("r", c)] :
              f \in {"b", "c", "d", "e", "f", "g"}, c \in {"w", "b"}}
    \cup {[sq |-> sq, piece |-> Piece("n", c)] :
              sq \in {algebraicToSquare("b", 1), algebraicToSquare("g", 1),
                      algebraicToSquare("b", 8), algebraicToSquare("g", 8),
                      algebraicToSquare("e", 3), algebraicToSquare("e", 6)},
              c \in {"w", "b"}}

\* A position as applyMove leaves it with kings and rooks on their home
\* squares and one more piece.
CastlePosition(extra, turn, rights) ==
    [board |-> [r \in Rows |-> [c \in Cols |->
                   IF <<r, c>> = extra.sq THEN extra.piece
                   ELSE IF r \in {0, 7} /\ c = 4
                   THEN Piece("k", IF r = 7 THEN "w" ELSE "b")
                   ELSE IF r \in {0, 7} /\ c \in {0, 7}
                   THEN Piece("r", IF r = 7 THEN "w" ELSE "b")
                   ELSE NullPiece]],
     turn |-> turn,
     castling |-> rights,
     enPassant |-> NullSquare,
     halfmoveClock |-> 0,
     fullmoveNumber |-> 40,
     lastMove |-> NullMove]

\* Those of them a game can reach: the side that has just moved is not in
\* check.
CastlePositions ==
    {st \in {CastlePosition(extra, turn, rights) :
                 extra \in CastleExtras, turn \in {"w", "b"},
                 rights \in CastleRights} :
        ~isInCheck(st.board, Enemy(st.turn))}

CastleInit ==
    /\ state \in CastlePositions
    /\ moves = <<>>
    /\ book = 1
    /\ token = <<>>
    /\ cut = 0
    /\ last = NoCall
    /\ list = <<>>
    /\ heap = NoHeap

\* A player plays a move of the castling play that the rules accept.
PlayCastle(m) ==
    /\ Len(moves) < MaxCastlePlies
    /\ isLegalMove(state, m)
    /\ state' = applyMove(state, m)
    /\ moves' = Append(moves, m)
    /\ UNCHANGED <<book, token, cut, last, list, heap>>

CastleNext == \E m \in CastlePlay : PlayCastle(m)

CastleSpec == CastleInit /\ [][CastleNext]_vars

\* The king's moves by two files along its rank, for the side to move.
TwoSquareKingMoves(st) ==
    LET king == findKing(st.board, st.turn)
    IN  {Mv(king, <<king[1], c>>, Undefined) :
             c \in {x \in Cols : Abs(x - king[2]) = 2}}

\* What the rules of castling ask of the position, for the side to move and
\* the wing the king moves towards.
CastlingAllowed(st, move) ==
    LET color == st.turn
        row == IF color = "w" THEN 7 ELSE 0
        kingside == move.to[2] > move.from[2]
        right == IF color = "w"
                 THEN (IF kingside THEN st.castling.whiteKingside
                       ELSE st.castling.whiteQueenside)
                 ELSE (IF kingside THEN st.castling.blackKingside
                       ELSE st.castling.blackQueenside)
        corner == IF kingside THEN 7 ELSE 0
        between == IF kingside THEN {5, 6} ELSE {1, 2, 3}
        passed == IF kingside THEN {5, 6} ELSE {3, 2}
    IN  /\ move.from = <<row, 4>>
        /\ st.board[row][4] = Piece("k", color)
        /\ right
        /\ ~isInCheck(st.board, color)
        /\ st.board[row][corner] = Piece("r", color)
        /\ \A c \in between : st.board[row][c] = NullPiece
        /\ \A c \in passed : ~isSquareAttacked(st.board, row, c, Enemy(color))

\* C18. In every reachable position a two-square king move is legal exactly
\* when the king stands on the e-file of its back rank, the right for that
\* colour and side is true, the king is not in check, a rook of its colour
\* stands on that side's corner, the squares between king and rook are empty
\* and neither the square the king crosses nor its destination is attacked.
CastlingLegality ==
    \A m \in TwoSquareKingMoves(state) :
        isLegalMove(state, m) <=> CastlingAllowed(state, m)

\* A position where the rook stands at home, the squares between are empty,
\* the right is held and the king is not in check, and castling is refused
\* because the square the king crosses is attacked; on the other wing, or in
\* another position, castling is legal.
CastlingLegalityWitness ==
    /\ state.turn = "w"
    /\ state.castling.whiteKingside
    /\ state.board[7][7] = Piece("r", "w")
    /\ state.board[7][5] = NullPiece /\ state.board[7][6] = NullPiece
    /\ ~isInCheck(state.board, "w")
    /\ isSquareAttacked(state.board, 7, 5, "b")
    /\ ~isSquareAttacked(state.board, 7, 6, "b")
    /\ ~isLegalMove(state, Go("e", 1, "g", 1))
    /\ isLegalMove(state, Go("e", 1, "c", 1))


\* The last step played a two-square king move.
CastlingPlayed ==
    /\ moves' # moves
    /\ state.board[moves'[Len(moves')].from[1]][moves'[Len(moves')].from[2]].type = "k"
    /\ Abs(moves'[Len(moves')].to[2] - moves'[Len(moves')].from[2]) = 2

\* What castling does to a position: the king and the rook of the wing
\* change places as the rules say, nothing else on the board changes, and
\* the mover has no castling right left.
CastlingEffect(st, new, move) ==
    LET color == st.turn
        row == move.from[1]
        kingside == move.to[2] > move.from[2]
        corner == IF kingside THEN 7 ELSE 0
        kingCol == IF kingside THEN 6 ELSE 2
        rookCol == IF kingside THEN 5 ELSE 3
    IN  /\ row = (IF color = "w" THEN 7 ELSE 0)
        /\ new.board[row][kingCol] = Piece("k", color)
        /\ new.board[row][rookCol] = Piece("r", color)
        /\ new.board[row][4] = NullPiece
        /\ new.board[row][corner] = NullPiece
        /\ \A sq \in Squares :
               sq \notin {<<row, 4>>, <<row, corner>>, <<row, kingCol>>, <<row, rookCol>>}
                   => new.board[sq[1]][sq[2]] = st.board[sq[1]][sq[2]]
        /\ IF color = "w"
           THEN ~new.castling.whiteKingside /\ ~new.castling.whiteQueenside
           ELSE ~new.castling.blackKingside /\ ~new.castling.blackQueenside

\* C19. Applying a legal two-square king move puts the king on the g-file or
\* the c-file of its back rank, moves the rook of that side from its corner
\* to the f-file or the d-file, leaves the king's home square and the corner
\* empty, changes no other square, and sets both castling rights of the
\* moving colour to false.
CastlingApplication ==
    [][CastlingPlayed => CastlingEffect(state, state', moves'[Len(moves')])]_vars

\* Black has castled queenside: king on c8, rook on d8, a seventh piece
\* still where it stood.
CastlingApplicationWitness ==
    /\ moves # <<>>
    /\ moves[Len(moves)] = Go("e", 8, "c", 8)
    /\ state.board[0][2] = Piece("k", "b")
    /\ state.board[0][3] = Piece("r", "b")
    /\ Cardinality(Occupied(state.board)) = 7


\* The last move played moved a pawn two ranks.
LastMoveDoubleStep ==
    IF moves = <<>> THEN FALSE
    ELSE LET stepped == moves[Len(moves)]
         IN  /\ At(state.board, stepped.to).type = "p"
             /\ Abs(stepped.to[1] - stepped.from[1]) = 2

\* The square the pawn of the last move passed over.
PassedOver ==
    LET stepped == moves[Len(moves)]
    IN  <<(stepped.from[1] + stepped.to[1]) \div 2, stepped.from[2]>>

\* The moves of the pawns of the side to move one rank ahead onto an empty
\* square of a neighbouring file: the shape of an en-passant capture.
DiagonalPawnMoves(st) ==
    LET dir == IF st.turn = "w" THEN -1 ELSE 1
    IN  {Mv(sq, <<sq[1] + dir, sq[2] + dc>>, Undefined) :
             sq \in {s \in Squares : At(st.board, s) = Piece("p", st.turn)},
             dc \in {-1, 1}}
        \cap {m \in [from : Squares, to : Squares, promotion : {Undefined}] :
                  At(st.board, m.to) = NullPiece}

\* C20. In every reachable position the en-passant target is non-null exactly
\* when the last move played was a pawn double step, and it is then the empty
\* square that pawn passed over; an en-passant capture is legal only on the
\* move that follows the double step at once, onto that square.
EnPassantLifetime ==
    /\ (state.enPassant # NullSquare) <=> LastMoveDoubleStep
    /\ LastMoveDoubleStep =>
           /\ state.enPassant = PassedOver
           /\ At(state.board, state.enPassant) = NullPiece
    /\ \A m \in DiagonalPawnMoves(state) :
           isLegalMove(state, m) => LastMoveDoubleStep /\ m.to = PassedOver

\* Two plies after the double step d7 to d5 the white pawn still stands on e5
\* beside the black pawn on d5 with d6 empty: the target is gone and the
\* capture e5 to d6, legal a move earlier, is refused.
EnPassantLifetimeWitness ==
    /\ Len(moves) = 6
    /\ SubSeq(moves, 4, 6) = <<Go("d", 7, "d", 5), Go("g", 1, "f", 3),
                               Go("c", 6, "b", 8)>>
    /\ At(state.board, algebraicToSquare("e", 5)) = Piece("p", "w")
    /\ At(state.board, algebraicToSquare("d", 5)) = Piece("p", "b")
    /\ At(state.board, algebraicToSquare("d", 6)) = NullPiece
    /\ state.enPassant = NullSquare
    /\ ~isLegalMove(state, Go("e", 5, "d", 6))


\* The move is a pawn move or takes a piece: an en-passant capture is a pawn
\* move.
PawnMoveOrCapture(st, move) ==
    At(st.board, move.from).type = "p" \/ At(st.board, move.to) # NullPiece

RECURSIVE PliesSinceReset(_, _)
\* The number of plies among the first k of a game that were played after its
\* last pawn move or capture.
PliesSinceReset(ms, k) ==
    IF k = 0 THEN 0
    ELSE IF PawnMoveOrCapture(PositionAfter(ms, k - 1), ms[k]) THEN 0
    ELSE PliesSinceReset(ms, k - 1) + 1

\* C21. After every applied legal move the half-move clock is 0 if the moved
\* piece was a pawn or the move captured a piece, and otherwise the previous
\* clock plus one; in every reachable position the clock equals the number of
\* plies played since the last pawn move or capture.
HalfmoveClockLaw ==
    /\ [][moves' # moves =>
              state'.halfmoveClock =
                  IF PawnMoveOrCapture(state, moves'[Len(moves')]) THEN 0
                  ELSE state.halfmoveClock + 1]_vars
    /\ [](state.halfmoveClock = PliesSinceReset(moves, Len(moves)))

\* A piece that is not a pawn has just captured after two quiet plies, and
\* the clock is back at zero.
HalfmoveClockLawWitness ==
    /\ Len(moves) >= 3
    /\ LET before == PositionAfter(moves, Len(moves) - 1)
           move == moves[Len(moves)]
       IN  /\ At(before.board, move.from).type # "p"
           /\ At(before.board, move.to) # NullPiece
           /\ before.halfmoveClock = 2
    /\ state.halfmoveClock = 0


\* ------------------------------------------------------------------------
\* Promotion: pawns one or two steps from the farthest rank
\* ------------------------------------------------------------------------

MaxPromoPlies == 2

\* Advances and captures of the pawns, onto the farthest rank with and
\* without a promotion piece, and king moves.
PromoPlay ==
    {GoPromote("b", 7, "b", 8, "q"), GoPromote("b", 7, "b", 8, "n"),
     GoPromote("b", 7, "a", 8, "r"), GoPromote("h", 7, "h", 8, "b"),
     Go("b", 6, "b", 7), Go("e", 1, "e", 2),
     GoPromote("g", 2, "g", 1, "q"), GoPromote("g", 2, "h", 1, "n"),
     Go("g", 3, "g", 2), Go("e", 8, "e", 7), Go("a", 8, "a", 7)}

\* A position as applyMove leaves it late in a game: the kings at home
\* without rights, a white rook on h1, a white and a black pawn, and a black
\* rook on a8 or not.
PromoPosition(whitePawn, blackPawn, rook, turn) ==
    [board |-> [r \in Rows |-> [c \in Cols |->
                   IF <<r, c>> = whitePawn THEN Piece("p", "w")
                   ELSE IF <<r, c>> = blackPawn THEN Piece("p", "b")
                   ELSE IF <<r, c>> = algebraicToSquare("e", 1) THEN Piece("k", "w")
                   ELSE IF <<r, c>> = algebraicToSquare("e", 8) THEN Piece("k", "b")
                   ELSE IF <<r, c>> = algebraicToSquare("h", 1) THEN Piece("r", "w")
                   ELSE IF rook /\ <<r, c>> = algebraicToSquare("a", 8)
                   THEN Piece("r", "b")
                   ELSE NullPiece]],
     turn |-> turn,
     castling |-> NoCastling,
     enPassant |-> NullSquare,
     halfmoveClock |-> 0,
     fullmoveNumber |-> 50,
     lastMove |-> NullMove]

\* Those of them a game can reach: the side that has just moved is not in
\* check.
PromoPositions ==
    {st \in {PromoPosition(whitePawn, blackPawn, rook, turn) :
                 whitePawn \in {algebraicToSquare("b", 6), algebraicToSquare("b", 7),
                                algebraicToSquare("h", 7)},
                 blackPawn \in {algebraicToSquare("g", 2), algebraicToSquare("g", 3)},
                 rook \in BOOLEAN, turn \in {"w", "b"}} :
        ~isInCheck(st.board, Enemy(st.turn))}

PromoInit ==
    /\ state \in PromoPositions
    /\ moves = <<>>
    /\ book = 1
    /\ token = <<>>
    /\ cut = 0
    /\ last = NoCall
    /\ list = <<>>
    /\ heap = NoHeap

\* A player plays a move of the promotion play that the rules accept.
PlayPromo(m) ==
    /\ Len(moves) < MaxPromoPlies
    /\ isLegalMove(state, m)
    /\ state' = applyMove(state, m)
    /\ moves' = Append(moves, m)
    /\ UNCHANGED <<book, token, cut, last, list, heap>>

PromoNext == \E m \in PromoPlay : PlayPromo(m)

PromoSpec == PromoInit /\ [][PromoNext]_vars

\* The values a caller can put in a move's promotion field.
PromotionInputs == {Undefined, "q", "r", "b", "n", "k", "p"}

\* Every move of a piece of the side to move to any square, with every
\* promotion value.
MovesToTry(st) ==
    {Mv(from, to, promotion) :
         from \in {sq \in Squares : At(st.board, sq).color = st.turn},
         to \in Squares, promotion \in PromotionInputs}

FarthestRow(color) == IF color = "w" THEN 0 ELSE 7

\* C22. isLegalMove accepts a move carrying a promotion only when a pawn moves
\* onto the farthest rank and the promotion is queen, rook, bishop or knight;
\* it rejects every pawn move onto the farthest rank that carries no
\* promotion; and no reachable position has a pawn on row 0 or row 7.
PromotionRule ==
    /\ \A m \in MovesToTry(state) :
           isLegalMove(state, m) =>
               IF m.promotion # Undefined
               THEN /\ At(state.board, m.from).type = "p"
                    /\ m.to[1] = FarthestRow(state.turn)
                    /\ m.promotion \in {"q", "r", "b", "n"}
               ELSE ~(/\ At(state.board, m.from).type = "p"
                      /\ m.to[1] = FarthestRow(state.turn))
    /\ \A c \in Cols :
           state.board[0][c].type # "p" /\ state.board[7][c].type # "p"

\* Black has just promoted by capturing on h1: a black knight stands there,
\* no pawn is left on g2, and white now has a pawn on b7 that may promote on
\* b8 but may not step there without a promotion piece.
PromotionRuleWitness ==
    /\ moves = <<GoPromote("g", 2, "h", 1, "n")>>
    /\ At(state.board, algebraicToSquare("h", 1)) = Piece("n", "b")
    /\ At(state.board, algebraicToSquare("g", 2)) = NullPiece
    /\ isLegalMove(state, GoPromote("b", 7, "b", 8, "r"))
    /\ ~isLegalMove(state, Go("b", 7, "b", 8))
    /\ ~isLegalMove(state, GoPromote("b", 7, "b", 8, "k"))


\* ------------------------------------------------------------------------
\* Attack detection: boards with one king of each colour
\* ------------------------------------------------------------------------

MaxPlaced == 2

\* Where the white and the black king stand: a rank apart, and side by side.
AttackKingSpots ==
    {<<algebraicToSquare("d", 4), algebraicToSquare("d", 6)>>,
     <<algebraicToSquare("d", 5), algebraicToSquare("d", 6)>>}

\* The squares pieces are put on: a knight's jump and a diagonal step from
\* the kings, two squares of the file and one of the diagonal that end on d6.
AttackSpots ==
    {algebraicToSquare("b", 5), algebraicToSquare("c", 5),
     algebraicToSquare("d", 7), algebraicToSquare("d", 8),
     algebraicToSquare("f", 8)}

AttackPieces == {Piece(t, c) : t \in {"p", "n", "b", "r", "q"}, c \in {"w", "b"}}

\* A board with the two kings only, as a position for generatePseudoLegalMoves.
KingsOnly(wk, bk) ==
    [board |-> [r \in Rows |-> [c \in Cols |->
                   IF <<r, c>> = wk THEN Piece("k", "w")
                   ELSE IF <<r, c>> = bk THEN Piece("k", "b")
                   ELSE NullPiece]],
     turn |-> "w",
     castling |-> NoCastling,
     enPassant |-> NullSquare,
     halfmoveClock |-> 0,
     fullmoveNumber |-> 1,
     lastMove |-> NullMove]

AttackInit ==
    /\ state \in {KingsOnly(kings[1], kings[2]) : kings \in AttackKingSpots}
    /\ moves = <<>>
    /\ book = 1
    /\ token = <<>>
    /\ cut = 0
    /\ last = NoCall
    /\ list = <<>>
    /\ heap = NoHeap

\* One more piece is put on the board.
Place(piece, sq) ==
    /\ Cardinality(Occupied(state.board)) < 2 + MaxPlaced
    /\ At(state.board, sq) = NullPiece
    /\ state' = [state EXCEPT !.board = Put(state.board, sq[1], sq[2], piece)]
    /\ UNCHANGED <<moves, book, token, cut, last, list, heap>>

AttackNext == \E piece \in AttackPieces, sq \in AttackSpots : Place(piece, sq)

AttackSpec == AttackInit /\ [][AttackNext]_vars

\* With the opponent of the colour to move, the pseudo-legal moves of the
\* opponent's pieces that end on the colour's king square.
MovesOntoKing(st, color) ==
    LET other == [st EXCEPT !.turn = Enemy(color)]
    IN  UNION {{m \in generatePseudoLegalMoves(other, sq[1], sq[2]) :
                    m.to = findKing(st.board, color)} :
               sq \in {s \in Squares : At(st.board, s).color = Enemy(color)}}

\* C23. On every board with one king of each colour and for every colour,
\* isInCheck is true exactly when, with the opponent to move, some piece of
\* the opponent has a pseudo-legal move that ends on the colour's king square.
CheckAgreesWithMoves ==
    \A color \in {"w", "b"} :
        isInCheck(state.board, color) <=> MovesOntoKing(state, color) # {}

\* A white rook on d8 looks down the file at the black king on d6 and a
\* black knight on d7 stands in the way: black is not in check and no white
\* move ends on d6.
CheckAgreesWithMovesWitness ==
    /\ At(state.board, algebraicToSquare("d", 8)) = Piece("r", "w")
    /\ At(state.board, algebraicToSquare("d", 7)) = Piece("n", "b")
    /\ At(state.board, algebraicToSquare("d", 4)) = Piece("k", "w")
    /\ ~isInCheck(state.board, "b")
    /\ MovesOntoKing(state, "b") = {}
    /\ MovesOntoKing([state EXCEPT !.board =
                          Put(state.board, 1, 3, NullPiece)], "b") # {}


\* The colour a castling right belongs to and the corner of its rook.
RightColor(right) ==
    IF right \in {"whiteKingside", "whiteQueenside"} THEN "w" ELSE "b"

RightCorner(right) ==
    <<IF RightColor(right) = "w" THEN 7 ELSE 0,
      IF right \in {"whiteKingside", "blackKingside"} THEN 7 ELSE 0>>

\* C24. In every position reached from the initial position by legal moves,
\* whenever a castling right is true the king of that colour stands on its
\* home square and a rook of that colour stands on the corner of that side.
RightsImplyHomeSquares ==
    \A right \in CastlingRightNames :
        state.castling[right] =>
            /\ At(state.board, CastlingMove(right).from) =
                   Piece("k", RightColor(right))
            /\ At(state.board, RightCorner(right)) = Piece("r", RightColor(right))

\* The rook on a8 has been taken by a promoting pawn: black's queenside right
\* is gone with it, and the kingside right is still held with king and rook
\* at home.
RightsImplyHomeSquaresWitness ==
    /\ moves # <<>>
    /\ moves[Len(moves)].to = algebraicToSquare("a", 8)
    /\ At(state.board, algebraicToSquare("a", 8)).color = "w"
    /\ ~state.castling.blackQueenside
    /\ state.castling.blackKingside
    /\ At(state.board, algebraicToSquare("h", 8)) = Piece("r", "b")


\* ------------------------------------------------------------------------
\* Replay of long games: a link grows move by move and is decoded each time
\* ------------------------------------------------------------------------

MaxRecords == 102

\* The knights go out and back for as long as the link may grow: no pawn
\* moves and nothing is taken.
ShuffleGame ==
    [i \in 1..MaxRecords |->
        <<Go("g", 1, "f", 3), Go("g", 8, "f", 6),
          Go("f", 3, "g", 1), Go("f", 6, "g", 8)>>[((i - 1) % 4) + 1]]

\* The fool's mate, and two records added to the link after it.
MateGame ==
    <<Go("f", 2, "f", 3), Go("e", 7, "e", 5), Go("g", 2, "g", 4),
      Go("d", 8, "h", 4), Go("e", 2, "e", 4), Go("a", 7, "a", 6)>>

\* A game that ends in stalemate on white's tenth move, and two records
\* added to the link after it.
StalemateGame ==
    <<Go("e", 2, "e", 3), Go("a", 7, "a", 5), Go("d", 1, "h", 5),
      Go("a", 8, "a", 6), Go("h", 5, "a", 5), Go("h", 7, "h", 5),
      Go("h", 2, "h", 4), Go("a", 6, "h", 6), Go("a", 5, "c", 7),
      Go("f", 7, "f", 6), Go("c", 7, "d", 7), Go("e", 8, "f", 7),
      Go("d", 7, "b", 7), Go("d", 8, "d", 3), Go("b", 7, "b", 8),
      Go("d", 3, "h", 7), Go("b", 8, "c", 8), Go("f", 7, "g", 6),
      Go("c", 8, "e", 6), Go("g", 6, "g", 5), Go("a", 2, "a", 3)>>

\* A game in which everything but the kings is taken, the last pawn on
\* white's 32nd move, and the kings then move on.
BareKingsGame ==
    <<
      Go("g", 2, "g", 3), Go("d", 7, "d", 5), Go("a", 2, "a", 4),
      Go("b", 8, "d", 7), Go("b", 1, "c", 3), Go("g", 7, "g", 6),
      Go("c", 3, "d", 5), Go("d", 7, "b", 6), Go("d", 5, "c", 7),
      Go("d", 8, "c", 7), Go("d", 2, "d", 3), Go("c", 7, "c", 2),
      Go("d", 1, "c", 2), Go("b", 6, "a", 4), Go("c", 2, "c", 8),
      Go("a", 8, "c", 8), Go("a", 1, "a", 4), Go("c", 8, "c", 1),
      Go("e", 1, "d", 2), Go("c", 1, "f", 1), Go("a", 4, "a", 7),
      Go("f", 1, "f", 2), Go("a", 7, "b", 7), Go("f", 2, "e", 2),
      Go("d", 2, "e", 2), Go("f", 7, "f", 6), Go("b", 7, "e", 7),
      Go("g", 8, "e", 7), Go("e", 2, "f", 2), Go("f", 6, "f", 5),
      Go("g", 1, "h", 3), Go("h", 7, "h", 5), Go("b", 2, "b", 3),
      Go("g", 6, "g", 5), Go("h", 3, "g", 5), Go("e", 8, "d", 8),
      Go("g", 5, "e", 6), Go("d", 8, "e", 8), Go("e", 6, "f", 8),
      Go("e", 8, "f", 8), Go("f", 2, "e", 2), Go("h", 5, "h", 4),
      Go("g", 3, "h", 4), Go("h", 8, "h", 4), Go("h", 1, "e", 1),
      Go("h", 4, "h", 2), Go("e", 2, "e", 3), Go("h", 2, "b", 2),
      Go("e", 3, "d", 4), Go("b", 2, "b", 3), Go("e", 1, "e", 7),
      Go("b", 3, "d", 3), Go("d", 4, "d", 3), Go("f", 8, "e", 7),
      Go("d", 3, "e", 2), Go("e", 7, "e", 6), Go("e", 2, "f", 3),
      Go("e", 6, "f", 6), Go("f", 3, "e", 3), Go("f", 6, "e", 7),
      Go("e", 3, "f", 4), Go("e", 7, "d", 6), Go("f", 4, "f", 5),
      Go("d", 6, "d", 5), Go("f", 5, "f", 4)
    >>

\* The games whose links are replayed.
ReplayGames == <<ShuffleGame, MateGame, StalemateGame, BareKingsGame>>

ReplayInit ==
    /\ state = createInitialState
    /\ moves = <<>>
    /\ book \in DOMAIN ReplayGames
    /\ token = <<>>
    /\ cut = 0
    /\ last = NoCall
    /\ list = <<>>
    /\ heap = NoHeap

\* The next move of the game is added to the link by appendMoveToEncoded and
\* the new link is opened: decodeGameState gives the position and the moves.
Submit ==
    /\ Len(list) < MaxRecords
    /\ Len(list) < Len(ReplayGames[book])
    /\ \E next \in {appendMoveToEncoded(token, ReplayGames[book][Len(list) + 1])} :
       \E result \in {decodeGameState(next)} :
           /\ token' = next
           /\ state' = result.state
           /\ moves' = result.moves
    /\ list' = Append(list, ReplayGames[book][Len(list) + 1])
    /\ UNCHANGED <<book, cut, last, heap>>

ReplayNext == Submit

ReplaySpec == ReplayInit /\ [][ReplayNext]_vars

\* C25. During decodeGameState no move is accepted from a position whose
\* status is checkmate or stalemate, and a legal move played from a position
\* whose status is draw_50_move or draw_insufficient is still accepted (so
\* the half-move clock of a decoded position can pass 100).
ReplayIgnoresDraws ==
    /\ [][(list' # list /\ getGameStatus(state) \in {"checkmate", "stalemate"})
              => moves' = moves /\ state' = state]_vars
    /\ [][(/\ list' # list
           /\ moves = list
           /\ getGameStatus(state) \in {"draw_50_move", "draw_insufficient"}
           /\ isLegalMove(state, list'[Len(list')]))
              => /\ moves' = Append(moves, list'[Len(list')])
                 /\ state' = applyMove(state, list'[Len(list')])]_vars

\* A link of 101 knight moves has been decoded: every one of them was
\* accepted and the half-move clock of the position stands at 101.
ReplayIgnoresDrawsWitness ==
    /\ state.halfmoveClock > 100
    /\ Len(moves) = 101
    /\ moves = list
    /\ getGameStatus(state) = "draw_50_move"


\* ------------------------------------------------------------------------
\* Material: the kings in opposite corners and a few more pieces
\* ------------------------------------------------------------------------

MaxMaterial == 2

\* The squares pieces are put on, two of each parity of row + col.
MaterialSpots ==
    {algebraicToSquare("c", 3), algebraicToSquare("d", 3),
     algebraicToSquare("e", 5), algebraicToSquare("e", 4)}

MaterialInit ==
    /\ state \in {[KingsOnly(algebraicToSquare("a", 1), algebraicToSquare("h", 8))
                      EXCEPT !.turn = turn, !.halfmoveClock = 99,
                             !.fullmoveNumber = 70] : turn \in {"w", "b"}}
    /\ moves = <<>>
    /\ book = 1
    /\ token = <<>>
    /\ cut = 0
    /\ last = NoCall
    /\ list = <<>>
    /\ heap = NoHeap

\* One more piece is put on the board.
PlaceMaterial(piece, sq) ==
    /\ Cardinality(Occupied(state.board)) < 2 + MaxMaterial
    /\ At(state.board, sq) = NullPiece
    /\ state' = [state EXCEPT !.board = Put(state.board, sq[1], sq[2], piece)]
    /\ UNCHANGED <<moves, book, token, cut, last, list, heap>>

MaterialNext ==
    \E piece \in AttackPieces, sq \in MaterialSpots : PlaceMaterial(piece, sq)

MaterialSpec == MaterialInit /\ [][MaterialNext]_vars

\* The pieces are the two kings only, or the two kings and a single bishop or
\* knight, or the two kings and one bishop of each colour on squares of equal
\* (row + col) mod 2.
DrawnMaterial(board) ==
    LET others == {sq \in Occupied(board) : At(board, sq).type # "k"}
    IN  /\ Cardinality(Occupied(board) \ others) = 2
        /\ \/ others = {}
           \/ /\ Cardinality(others) = 1
              /\ \A sq \in others : At(board, sq).type \in {"b", "n"}
           \/ /\ Cardinality(others) = 2
              /\ \A sq \in others : At(board, sq).type = "b"
              /\ {At(board, sq).color : sq \in others} = {"w", "b"}
              /\ Cardinality({(sq[1] + sq[2]) % 2 : sq \in others}) = 1

\* C26. Where the side to move has a legal move and the half-move clock is
\* below 100, getGameStatus returns draw_insufficient exactly when the pieces
\* are the two kings, the two kings and one bishop or knight, or the two
\* kings and one bishop of each colour on squares of equal parity; in every
\* other case it returns ongoing.
InsufficientBoundary ==
    (getAllLegalMoves(state) # {} /\ state.halfmoveClock < 100) =>
        getGameStatus(state) =
            IF DrawnMaterial(state.board) THEN "draw_insufficient" ELSE "ongoing"

\* A white bishop on c3 and a black bishop on d3, squares of differing
\* parity: the game goes on, and with the black bishop on e5 instead it would
\* be drawn.
InsufficientBoundaryWitness ==
    /\ At(state.board, algebraicToSquare("c", 3)) = Piece("b", "w")
    /\ At(state.board, algebraicToSquare("d", 3)) = Piece("b", "b")
    /\ Cardinality(Occupied(state.board)) = 4
    /\ getAllLegalMoves(state) # {}
    /\ getGameStatus(state) = "ongoing"
    /\ getGameStatus([state EXCEPT !.board =
                          Put(Put(state.board, 5, 3, NullPiece),
                              3, 4, Piece("b", "b"))]) = "draw_insufficient"

====
